---- MODULE Spec2Model ----
(***************************************************************************)
(* State-machine model of the sovereign-browser filtering core             *)
(* (src-tauri/src/adblock_manager.rs and its callers in main.rs):          *)
(* AdBlockManager's engine cell (ArcSwap<Engine>), allowlist               *)
(* (DashMap<String, RuleExpiry>), Safari rules holder, the three cache     *)
(* files, the update_rules pipeline threads, the hot-path readers and the  *)
(* set_site_exception writers.                                             *)
(***************************************************************************)
EXTENDS Integers, Sequences, FiniteSets, TLC

VARIABLES
    now,                \* SystemTime::now(), seconds
    ticks,              \* number of clock advances so far (bounds the clock)
    macos,              \* cfg!(target_os = "macos") of the build
    engine,             \* AdBlockManager.engine: the Arc<Engine> in the ArcSwap
    safari_rules_json,  \* AdBlockManager.safari_rules_json
    allowlist,          \* AdBlockManager.allowlist: domain -> RuleExpiry
    engineFile,         \* app_dir/adblock_engine.bin
    safariFile,         \* app_dir/safari_rules.json
    allowlistFile,      \* app_dir/adblock_allowlist.json
    published,          \* history: every Arc<Engine> the cell has held, in order
    run,                \* update_rules threads: run[p] is thread p's locals
    rd,                 \* reader calls: rd[r] is call r's locals
    wr,                 \* set_site_exception calls: wr[w] is call w's locals
    tabs,               \* AppState.tabs: the Vec<Tab> behind its Mutex
    active_tab_id,      \* AppState.active_tab_id
    closed_tabs,        \* AppState.closed_tabs: the VecDeque<ClosedTab>
    events,             \* the 'update-tabs' events emitted so far, in order
    ui,                 \* tab command calls: ui[t] is call t's locals
    cl,                 \* archive_tab / pop_closed_tab calls: cl[c] is call c's locals
    archived,           \* number of archive_tab calls started so far
    popped,             \* number of pop_closed_tab calls that returned a tab
    evicted,            \* number of entries archive_tab dropped from the front
    history,            \* every push, pop and eviction of closed_tabs so far, in order
    cmd,                \* create/switch/close/navigate/reorder commands: cmd[t] is call t's locals
    tabs_mutex,         \* the thread holding the Mutex of AppState.tabs, if any
    active_mutex,       \* the thread holding the Mutex of AppState.active_tab_id, if any
    created,            \* number of tabs create_tab_with_url has built so far
    dropdown_ready,     \* AppState.dropdown_ready
    pending_payload,    \* AppState.pending_payload
    dd,                 \* dropdown command calls: dd[t] is call t's locals
    dropdown_events     \* the 'update-dropdown' payloads emitted to the dropdown window

adblockVars == <<now, ticks, macos, engine, safari_rules_json, allowlist, engineFile,
                 safariFile, allowlistFile, published, run, rd, wr>>

tabVars == <<tabs, active_tab_id, events, ui>>
closedVars == <<closed_tabs, cl, archived, popped, evicted, history>>
cmdVars == <<cmd, tabs_mutex, active_mutex, created>>
dropdownVars == <<dropdown_ready, pending_payload, dd, dropdown_events>>

browserVars == <<tabVars, closedVars, cmdVars, dropdownVars>>

vars == <<adblockVars, browserVars>>

----------------------------------------------------------------------------
(* Bounds of the model *)

MaxRuns == 2
MaxTicks == 2
StartTime == 1000

Runs == 1..MaxRuns
Readers == {"r1"}
Writers == {"w1", "w2"}
TabThreads == {"u1"}
Closers == {"c1", "c2"}
CmdThreads == {"a1", "a2"}
DropdownThreads == {"d1", "d2"}

----------------------------------------------------------------------------
(* Option<T> *)

None == [some |-> FALSE]
Some(x) == [some |-> TRUE, val |-> x]

(* Host names are sequences of labels: <<"news","example">> is news.example *)
NEWS == <<"news", "example">>
WWW_NEWS == <<"www", "news", "example">>
ADS == <<"ads", "example", "com">>
TRK == <<"trk", "example", "com">>
GMAIL == <<"gmail", "com">>
MAIL_GOOGLE == <<"mail", "google", "com">>
GOOGLE == <<"google", "com">>
GSTATIC == <<"gstatic", "com">>
GOOGLEUSERCONTENT == <<"googleusercontent", "com">>
GOOGLEAPIS == <<"googleapis", "com">>
GGPHT == <<"ggpht", "com">>

(* A URL string: well-formed with a domain host, well-formed with an IP host,
   or not parseable at all. *)
Url(host) == [wellformed |-> TRUE, hostkind |-> "domain", host |-> host]
IpUrl == [wellformed |-> TRUE, hostkind |-> "ipv4", host |-> <<"127", "0", "0", "1">>]
BadUrl == [wellformed |-> FALSE, hostkind |-> "none", host |-> <<>>]

(* s ends with suffix t (label-wise): d == t or d.ends_with("." + t) *)
IsSuffix(t, s) ==
    /\ Len(t) <= Len(s)
    /\ \A k \in 1..Len(t) : t[k] = s[Len(s) - Len(t) + k]

----------------------------------------------------------------------------
(* Filter lines, filter sets and engines (adblock crate values) *)

RequestTypes == {"script", "image"}

(* ||target^ with an optional $type restriction *)
BlockRule(target, types) ==
    [kind |-> "block", target |-> target, types |-> types, ctx |-> {}, selector |-> ""]
(* host##selector *)
HideRule(host, selector) ==
    [kind |-> "hide", target |-> host, types |-> {}, ctx |-> {}, selector |-> selector]
(* @@||target^$domain=ctx1|ctx2 *)
AllowRule(target, ctx) ==
    [kind |-> "allow", target |-> target, types |-> RequestTypes, ctx |-> ctx, selector |-> ""]
(* a line that is no filter: a comment, a blank line, a line of an HTML error page *)
JunkLine ==
    [kind |-> "junk", target |-> <<>>, types |-> {}, ctx |-> {}, selector |-> ""]

B_ADS == BlockRule(ADS, RequestTypes)
B_TRK == BlockRule(TRK, {"script"})
H_NEWS == HideRule(NEWS, ".ad-banner")

EASYLIST_URL == "https://easylist.to/easylist/easylist.txt"
EASYPRIVACY_URL == "https://easylist.to/easylist/easyprivacy.txt"

CUSTOM_EXCEPTION_RULES ==
    << AllowRule(GOOGLE, {MAIL_GOOGLE, GMAIL}),
       AllowRule(GSTATIC, {MAIL_GOOGLE, GMAIL}),
       AllowRule(GOOGLEUSERCONTENT, {MAIL_GOOGLE, GMAIL}),
       AllowRule(GOOGLEAPIS, {MAIL_GOOGLE, GMAIL}),
       AllowRule(GGPHT, {MAIL_GOOGLE, GMAIL}) >>

Range(s) == {s[k] : k \in 1..Len(s)}

IsFilterLine(line) == line.kind # "junk"

(* FilterSet::add_filters: every line that parses is appended, the others are
   skipped *)
AddFilters(filter_set, lines) == filter_set \o SelectSeq(lines, IsFilterLine)

(* An Arc<Engine>: id is the identity of the allocation (0: made by new(),
   p: compiled by pipeline thread p), rules the compiled filters *)
MkEngine(id, rules) == [id |-> id, rules |-> rules]

(* Engine::default() *)
EngineDefault == MkEngine(0, {})

(* Engine::from_filter_set(filter_set, true) *)
FromFilterSet(id, filter_set) == MkEngine(id, Range(filter_set))

(* adblock::request::Request::new(url, source_url, request_type).ok() *)
RequestNew(url, source_url, request_type) ==
    IF ~url.wellformed
    THEN None
    ELSE Some([host |-> url.host,
               source |-> IF source_url.wellformed THEN source_url.host ELSE <<>>,
               type |-> request_type])

(* engine.check_network_request(&r).matched *)
CheckNetworkRequest(e, r) ==
    /\ \E f \in e.rules :
          /\ f.kind = "block"
          /\ IsSuffix(f.target, r.host)
          /\ r.type \in f.types
    /\ ~ \E f \in e.rules :
          /\ f.kind = "allow"
          /\ IsSuffix(f.target, r.host)
          /\ \E c \in f.ctx : IsSuffix(c, r.source)

(* engine.url_cosmetic_resources(url).hide_selectors *)
UrlCosmeticResources(e, url) ==
    IF ~url.wellformed
    THEN {}
    ELSE {f.selector : f \in {g \in e.rules : g.kind = "hide" /\ IsSuffix(g.target, url.host)}}

----------------------------------------------------------------------------
(* Files *)

Absent == [tag |-> "absent"]
(* content that does not deserialize: garbage, or a partly written file *)
Corrupt == [tag |-> "corrupt"]
(* new_engine.serialize() *)
Serialize(e) == [tag |-> "bin", rules |-> e.rules]
(* serde_json::to_string(..) of the allowlist table and of the Safari rules *)
AllowlistJson(table) == [tag |-> "allowlist", table |-> table]
SafariJson(rules) == [tag |-> "safari", rules |-> rules]

(* fs::write(path, data): the file holds data, or on an error is left as it
   was (the open failed) or is cut short (the write failed after truncation) *)
FsWrite(old, data) == {data, old, Corrupt}

----------------------------------------------------------------------------
(* RuleExpiry and the allowlist table *)

Forever == [tag |-> "Forever", t |-> 0]
Until(t) == [tag |-> "Until", t |-> t]

(* Variant of MapRemove: the key stays in the table *)
MapRemoveNothing(table, k) == table

(* Variant of MapInsert: an existing entry is kept (insert only if absent) *)
MapInsertKeepExisting(table, k, v) ==
    [x \in (DOMAIN table) \cup {k} |-> IF x \in DOMAIN table THEN table[x] ELSE v]

(* DashMap::insert / DashMap::remove on a table (a function on its keys) *)
MapInsert(table, k, v) ==
    [x \in (DOMAIN table) \cup {k} |-> IF x = k THEN v ELSE table[x]]
MapRemove(table, k) ==
    [x \in (DOMAIN table) \ {k} |-> table[x]]
EmptyMap == [x \in {} |-> Forever]

(* url::Url::parse(url).ok()?.domain(): the host when it is a domain name *)
extract_domain(url) ==
    IF url.wellformed /\ url.hostkind = "domain" THEN Some(url.host) ELSE None

----------------------------------------------------------------------------
(* AdBlockManager::new *)

(* load_engine_from_disk: Ok(engine) when the file reads and deserializes *)
load_engine_from_disk(file) ==
    IF file.tag = "bin" THEN Some(MkEngine(0, file.rules)) ELSE None

(* Variant of NewEngine: the engine read from the cache is dropped *)
NewEngineIgnoresCache(file) == EngineDefault

(* 1. Load Rust Engine *)
NewEngine(file) ==
    IF file.tag # "absent"
    THEN (IF load_engine_from_disk(file).some
          THEN load_engine_from_disk(file).val
          ELSE EngineDefault)
    ELSE EngineDefault

(* 2. Load Allowlist *)
NewAllowlist(file) ==
    IF file.tag = "allowlist" THEN file.table ELSE EmptyMap

(* 3. Load Safari Rules: the file's text as it is, "[]" without a file *)
NewSafariJson(file) ==
    IF file.tag # "absent" THEN file ELSE SafariJson(<<>>)

IdleRun ==
    [pc |-> "idle", i |-> 1, filter_set |-> <<>>, lines_count |-> 0,
     new_engine |-> EngineDefault, final_json |-> SafariJson(<<>>), fetched |-> <<>>,
     engine_written |-> TRUE]

IdleReader ==
    [pc |-> "idle", op |-> "none", url |-> BadUrl, source_url |-> BadUrl,
     request_type |-> "script", snap |-> None, blocked |-> FALSE, css |-> {},
     exceptions |-> {}, rules |-> None, started |-> 0]

IdleWriter ==
    [pc |-> "idle", duration_type |-> "", domain |-> <<>>, expiry |-> None,
     map |-> EmptyMap]

IdleTabCall ==
    [pc |-> "idle", op |-> "none", new_order |-> <<>>, old_order |-> <<>>,
     changed |-> FALSE]

(* The Tab of state.rs, by the fields the tab commands use *)
MkTab(id) == [id |-> id, title |-> <<"Tab", id>>, url |-> "https://example.com"]

(* impl From<&Tab> for ClosedTab *)
ClosedTabFrom(tab, time) ==
    [id |-> tab.id, title |-> tab.title, url |-> tab.url, closed_at |-> time]

IdleCloser ==
    [pc |-> "idle", op |-> "none", closed_tab |-> None, result |-> None]

(* The locals of a tab command: its arguments and what switch_tab_logic and
   close_tab_logic keep between their locked blocks. inner is the function
   the command is in (switch_tab_logic or create_tab_with_url) and sw_tab_id
   the tab_id that switch_tab_logic was given. at_call is the strip and the
   active id as they were when the command was called. *)
IdleCmd ==
    [pc |-> "idle", op |-> "none", tab_id |-> "", new_order |-> <<>>,
     inner |-> "none", sw_tab_id |-> "",
     old_active_id |-> "", found |-> FALSE, index |-> 0, was_active |-> FALSE,
     next_tab_id |-> None, result |-> "none",
     at_call |-> [tabs |-> <<>>, active_tab_id |-> None]]

(* The locals of update_dropdown and dropdown_ready *)
IdleDropdownCall == [pc |-> "idle", op |-> "none", is_ready |-> FALSE, payload |-> None]

(* The tab strip, with no tab command in flight and nothing emitted *)
TabStateIs(ts, active) ==
    /\ tabs = ts
    /\ active_tab_id = active
    /\ events = <<>>
    /\ ui = [t \in TabThreads |-> IdleTabCall]

(* The closed-tabs stack after its entries were archived one after another *)
ClosedStateIs(stack) ==
    /\ closed_tabs = stack
    /\ cl = [c \in Closers |-> IdleCloser]
    /\ archived = Len(stack)
    /\ popped = 0
    /\ evicted = 0
    /\ history = [k \in 1..Len(stack) |-> [ev |-> "push", id |-> stack[k].id]]

(* No tab command in flight, both mutexes free *)
NewCmdState ==
    /\ cmd = [t \in CmdThreads |-> IdleCmd]
    /\ tabs_mutex = None
    /\ active_mutex = None
    /\ created = 0

(* dropdown_ready: Mutex::new(false), pending_payload: Mutex::new(None) *)
NewDropdownState ==
    /\ dropdown_ready = FALSE
    /\ pending_payload = None
    /\ dd = [t \in DropdownThreads |-> IdleDropdownCall]
    /\ dropdown_events = <<>>

(* AppState as setup builds it: no tab, no active tab, nothing closed *)
NewAppState ==
    /\ TabStateIs(<<>>, None)
    /\ ClosedStateIs(<<>>)
    /\ NewCmdState
    /\ NewDropdownState

----------------------------------------------------------------------------
(* update_rules: the background pipeline, one thread per spawn_update_thread *)

urls == <<EASYLIST_URL, EASYPRIVACY_URL>>

(* What reqwest::blocking::get(url) followed by resp.text() can yield: an
   error, or a body of any content (reqwest returns Ok for every HTTP status,
   so an error page is a body like any other) *)
NetErr == [ok |-> FALSE, text |-> <<>>]
OkText(lines) == [ok |-> TRUE, text |-> lines]
Responses(url) ==
    IF url = EASYLIST_URL
    THEN {NetErr, OkText(<<JunkLine>>), OkText(<<B_ADS, H_NEWS>>)}
    ELSE {NetErr, OkText(<<>>), OkText(<<B_TRK>>)}

(* Variant of FetchOne: a failed fetch ends the run *)
FetchOneAbortOnError(r, resp) ==
    [r EXCEPT
        !.lines_count = IF resp.ok THEN @ + Len(resp.text) ELSE 0,
        !.filter_set = IF resp.ok THEN AddFilters(@, resp.text) ELSE <<>>,
        !.fetched = Append(@, resp),
        !.i = @ + 1,
        !.pc = IF ~resp.ok THEN "aborted" ELSE IF r.i = Len(urls) THEN "check" ELSE "fetch"]

(* Variant of FetchOne: the request has no timeout, so a source that never
   responds is waited for without end *)
FetchOneHangOnError(r, resp) ==
    [r EXCEPT
        !.lines_count = IF resp.ok THEN @ + Len(resp.text) ELSE @,
        !.filter_set = IF resp.ok THEN AddFilters(@, resp.text) ELSE @,
        !.fetched = Append(@, resp),
        !.i = IF resp.ok THEN @ + 1 ELSE @,
        !.pc = IF ~resp.ok THEN "waiting" ELSE IF r.i = Len(urls) THEN "check" ELSE "fetch"]

(* One iteration of `for url in &urls`: a response that arrived adds its lines
   to filter_set and their number to lines_count; a failed one adds nothing *)
FetchOne(r, resp) ==
    [r EXCEPT
        !.lines_count = IF resp.ok THEN @ + Len(resp.text) ELSE @,
        !.filter_set = IF resp.ok THEN AddFilters(@, resp.text) ELSE @,
        !.fetched = Append(@, resp),
        !.i = @ + 1,
        !.pc = IF r.i = Len(urls) THEN "check" ELSE "fetch"]

(* Variant of NoFiltersLoaded: the custom rules are counted as loaded lines *)
NoFiltersLoadedAfterInject(lines_count) == lines_count + Len(CUSTOM_EXCEPTION_RULES) = 0

(* if lines_count == 0 { return; } *)
NoFiltersLoaded(lines_count) == lines_count = 0

(* Variant of InjectCustomRules: the custom rules are left out *)
InjectNothing(filter_set) == filter_set

(* filter_set.add_filters(CUSTOM_EXCEPTION_RULES, ParseOptions::default()) *)
InjectCustomRules(filter_set) == AddFilters(filter_set, CUSTOM_EXCEPTION_RULES)

(* A rule object of the Safari content-blocking list *)
SafariRule(action, url_filter, if_domain) ==
    [action |-> action, url_filter |-> url_filter, if_domain |-> if_domain]

(* A url-filter regular expression: prefix, optional-subdomain group, the
   domain with its dots escaped, tail *)
UrlFilter(prefix, subdomains, domain, tail) ==
    [prefix |-> prefix, subdomains |-> subdomains, domain |-> domain, tail |-> tail]

(* filter_set.into_content_blocking(): block and hide filters convert, the
   $domain exceptions do not; Ok because the set was made with debug = true *)
Convertible(f) == f.kind \in {"block", "hide"}
ConvertFilter(f) ==
    SafariRule(IF f.kind = "block" THEN "block" ELSE "css-display-none",
               UrlFilter("^[^:]+:(//)?", TRUE, f.target, ""), {})
IntoContentBlocking(filter_set) ==
    LET c == SelectSeq(filter_set, Convertible)
    IN  [k \in 1..Len(c) |-> ConvertFilter(c[k])]

gmail_domains == {<<"*mail", "google", "com">>, <<"*gmail", "com">>}
whitelisted_domains == <<GOOGLE, GSTATIC, GOOGLEUSERCONTENT, GOOGLEAPIS, GGPHT>>

(* Variant of ExceptionRule: the url-filter only has to contain the domain *)
ExceptionRuleUnanchored(whitelisted) ==
    SafariRule("allow", UrlFilter("", FALSE, whitelisted, ""), gmail_domains)

(* The allow rule pushed for one whitelisted domain *)
ExceptionRule(whitelisted) ==
    SafariRule("allow",
               IF Len(whitelisted) > 1
               THEN UrlFilter("^https?://", TRUE, whitelisted, "(/|$)")
               ELSE UrlFilter("^https?://", FALSE, whitelisted, "(/|$)"),
               gmail_domains)

(* Pipeline B: the converted rules followed by one exception rule per
   whitelisted domain, serialized *)
FinalSafariJson(filter_set) ==
    SafariJson(IntoContentBlocking(filter_set)
               \o [k \in 1..Len(whitelisted_domains) |-> ExceptionRule(whitelisted_domains[k])])

(* spawn_update_thread: a new thread enters update_rules *)
SpawnUpdateThread(p) ==
    /\ run[p].pc = "idle"
    /\ \A q \in Runs : q < p => run[q].pc # "idle"
    /\ run' = [run EXCEPT ![p] = [IdleRun EXCEPT !.pc = "fetch"]]
    /\ UNCHANGED <<now, ticks, macos, engine, safari_rules_json, allowlist,
                   engineFile, safariFile, allowlistFile, published, rd, wr>>
    /\ UNCHANGED browserVars

(* update_rules, the fetch loop *)
Fetch(p) ==
    /\ run[p].pc = "fetch"
    /\ \E resp \in Responses(urls[run[p].i]) :
          run' = [run EXCEPT ![p] = FetchOne(run[p], resp)]
    /\ UNCHANGED <<now, ticks, macos, engine, safari_rules_json, allowlist,
                   engineFile, safariFile, allowlistFile, published, rd, wr>>
    /\ UNCHANGED browserVars

(* update_rules, after the loop: abort, or inject the custom rules and build
   the engine *)
Compile(p) ==
    /\ run[p].pc = "check"
    /\ run' = [run EXCEPT ![p] =
          IF NoFiltersLoaded(run[p].lines_count)
          THEN [run[p] EXCEPT !.pc = "aborted"]
          ELSE [run[p] EXCEPT
                  !.filter_set = InjectCustomRules(@),
                  !.new_engine = FromFilterSet(p, InjectCustomRules(run[p].filter_set)),
                  !.pc = "write_engine"]]
    /\ UNCHANGED <<now, ticks, macos, engine, safari_rules_json, allowlist,
                   engineFile, safariFile, allowlistFile, published, rd, wr>>
    /\ UNCHANGED browserVars

(* Variant of WriteEngineCache: the run gives up when the write fails *)
WriteEngineCacheOrAbort(p) ==
    /\ run[p].pc = "write_engine"
    /\ \E f \in FsWrite(engineFile, Serialize(run[p].new_engine)) :
          /\ engineFile' = f
          /\ run' = [run EXCEPT ![p].pc = IF f = Serialize(run[p].new_engine)
                                          THEN "store_engine" ELSE "aborted"]
    /\ UNCHANGED <<now, ticks, macos, engine, safari_rules_json, allowlist,
                   safariFile, allowlistFile, published, rd, wr>>
    /\ UNCHANGED browserVars

(* let _ = fs::write(app_dir.join(ENGINE_CACHE_FILE), serialized);
   engine_written is the io::Result the statement drops *)
WriteEngineCache(p) ==
    /\ run[p].pc = "write_engine"
    /\ \E f \in FsWrite(engineFile, Serialize(run[p].new_engine)) :
          /\ engineFile' = f
          /\ run' = [run EXCEPT ![p].pc = "store_engine",
                                ![p].engine_written = (f = Serialize(run[p].new_engine))]
    /\ UNCHANGED <<now, ticks, macos, engine, safari_rules_json, allowlist,
                   safariFile, allowlistFile, published, rd, wr>>
    /\ UNCHANGED browserVars

(* Variant of StoreEngine: the cell is reset to an empty engine *)
StoreEngineDefault(p) ==
    /\ run[p].pc = "store_engine"
    /\ engine' = MkEngine(p, {})
    /\ published' = Append(published, MkEngine(p, {}))
    /\ run' = [run EXCEPT ![p].pc = IF macos THEN "safari" ELSE "done"]
    /\ UNCHANGED <<now, ticks, macos, safari_rules_json, allowlist,
                   engineFile, safariFile, allowlistFile, rd, wr>>
    /\ UNCHANGED browserVars

(* self.engine.store(Arc::new(new_engine)) *)
StoreEngine(p) ==
    /\ run[p].pc = "store_engine"
    /\ engine' = run[p].new_engine
    /\ published' = Append(published, run[p].new_engine)
    /\ run' = [run EXCEPT ![p].pc = IF macos THEN "safari" ELSE "done"]
    /\ UNCHANGED <<now, ticks, macos, safari_rules_json, allowlist,
                   engineFile, safariFile, allowlistFile, rd, wr>>
    /\ UNCHANGED browserVars

(* Pipeline B up to fs::write(app_dir.join(SAFARI_CACHE_FILE), &final_json) *)
WriteSafariCache(p) ==
    /\ run[p].pc = "safari"
    /\ \E f \in FsWrite(safariFile, FinalSafariJson(run[p].filter_set)) : safariFile' = f
    /\ run' = [run EXCEPT ![p].final_json = FinalSafariJson(run[p].filter_set),
                          ![p].pc = "store_safari"]
    /\ UNCHANGED <<now, ticks, macos, engine, safari_rules_json, allowlist,
                   engineFile, allowlistFile, published, rd, wr>>
    /\ UNCHANGED browserVars

(* Variant of StoreSafari: the converted rules are stored before the
   exception rules are appended *)
StoreSafariBaseOnly(p) ==
    /\ run[p].pc = "store_safari"
    /\ safari_rules_json' = SafariJson(IntoContentBlocking(run[p].filter_set))
    /\ run' = [run EXCEPT ![p].pc = "done"]
    /\ UNCHANGED <<now, ticks, macos, engine, allowlist,
                   engineFile, safariFile, allowlistFile, published, rd, wr>>
    /\ UNCHANGED browserVars

(* self.safari_rules_json.store(Arc::new(final_json)) *)
StoreSafari(p) ==
    /\ run[p].pc = "store_safari"
    /\ safari_rules_json' = run[p].final_json
    /\ run' = [run EXCEPT ![p].pc = "done"]
    /\ UNCHANGED <<now, ticks, macos, engine, allowlist,
                   engineFile, safariFile, allowlistFile, published, rd, wr>>
    /\ UNCHANGED browserVars

----------------------------------------------------------------------------
(* Start-up *)

(* What an earlier process may have left in the application-data directory *)
PriorEngine ==
    FromFilterSet(0, AddFilters(AddFilters(<<>>, <<B_ADS, H_NEWS>>), CUSTOM_EXCEPTION_RULES))
InitEngineFiles == {Absent, Corrupt, Serialize(PriorEngine)}
PriorSafari == FinalSafariJson(AddFilters(<<>>, <<B_ADS, H_NEWS>>))
InitSafariFiles == {Absent, PriorSafari}
InitAllowlistFiles ==
    { Absent,
      Corrupt,
      AllowlistJson(MapInsert(EmptyMap, NEWS, Forever)),
      AllowlistJson(MapInsert(EmptyMap, NEWS, Until(StartTime - 1))),
      AllowlistJson(MapInsert(EmptyMap, NEWS, Until(StartTime + 3600))) }

(* The state AdBlockManager::new builds from the three files *)
NewAdBlockManager(ef, sf, af, mac) ==
    /\ engineFile = ef
    /\ safariFile = sf
    /\ allowlistFile = af
    /\ macos = mac
    /\ engine = NewEngine(ef)
    /\ allowlist = NewAllowlist(af)
    /\ safari_rules_json = NewSafariJson(sf)
    /\ published = <<NewEngine(ef)>>
    /\ now = StartTime
    /\ ticks = 0
    /\ run = [p \in Runs |-> IdleRun]
    /\ rd = [r \in Readers |-> IdleReader]
    /\ wr = [w \in Writers |-> IdleWriter]

(* The state of the process when setup has run *)
New(ef, sf, af, mac) == NewAdBlockManager(ef, sf, af, mac) /\ NewAppState

(* Start-up of a Windows/Linux build (the webview hook calls
   should_block_request; update_rules ends after Pipeline A), no allowlist file *)
Init ==
    \E ef \in InitEngineFiles : New(ef, Absent, Absent, FALSE)

(* Start-up of a macOS build (WKContentRuleList blocks, should_block_request is
   bypassed; update_rules runs Pipeline B too), no allowlist file *)
InitMac ==
    \E ef \in InitEngineFiles, sf \in InitSafariFiles : New(ef, sf, Absent, TRUE)

----------------------------------------------------------------------------
(* The read path: should_block_request, get_cosmetic_css, get_exceptions *)

(* (url, source_url, request_type) of the requests the webview hook passes *)
Requests ==
    { <<Url(ADS), Url(NEWS), "script">>,
      <<Url(TRK), Url(NEWS), "image">>,
      <<Url(ADS), Url(WWW_NEWS), "script">>,
      <<Url(ADS), BadUrl, "script">>,
      <<BadUrl, Url(NEWS), "script">> }

(* Page URLs of get_cosmetic_rules *)
PageUrls == {Url(NEWS), Url(GMAIL), BadUrl}

(* The thread that handles the user's exception actions in SpecAllow *)
UiThread == {"w1"}

(* Inputs of set_site_exception and the clock's steps in SpecAllow *)
ExceptionUrls == {Url(NEWS), Url(WWW_NEWS), BadUrl}
ExceptionDurations == {"1hour", "forever", "off", "1week"}
TickSteps == {3600}

(* The queries that run against the update pipeline *)
HotRequests == {<<Url(ADS), Url(NEWS), "script">>, <<Url(TRK), Url(NEWS), "image">>}
HotPages == {Url(NEWS)}

(* Variant of NotExpired: the entry still counts at its last second *)
NotExpiredInclusive(t, time) == time <= t

(* RuleExpiry::Until(t): SystemTime::now() < t *)
NotExpired(t, time) == time < t

(* Variant of AllowlistBypass: only time-bounded entries bypass the engine *)
AllowlistBypassUntilOnly(table, source_url, time) ==
    /\ extract_domain(source_url).some
    /\ extract_domain(source_url).val \in DOMAIN table
    /\ LET expiry == table[extract_domain(source_url).val]
       IN  IF expiry.tag = "Forever" THEN FALSE ELSE NotExpired(expiry.t, time)

(* should_block_request, the allowlist check: the source domain has an entry
   that is Forever or not yet expired *)
AllowlistBypass(table, source_url, time) ==
    /\ extract_domain(source_url).some
    /\ extract_domain(source_url).val \in DOMAIN table
    /\ LET expiry == table[extract_domain(source_url).val]
       IN  IF expiry.tag = "Forever" THEN TRUE ELSE NotExpired(expiry.t, time)

is_exception(table, url, time) ==
    /\ extract_domain(url).some
    /\ extract_domain(url).val \in DOMAIN table
    /\ LET expiry == table[extract_domain(url).val]
       IN  IF expiry.tag = "Forever" THEN TRUE ELSE NotExpired(expiry.t, time)

(* Variant of is_webmail_domain: gmail.com is missing from the list *)
is_webmail_domain_mail_google_only(url) ==
    /\ url.wellformed
    /\ url.hostkind = "domain"
    /\ IsSuffix(MAIL_GOOGLE, url.host)

is_webmail_domain(url) ==
    /\ url.wellformed
    /\ url.hostkind = "domain"
    /\ \/ IsSuffix(MAIL_GOOGLE, url.host)
       \/ IsSuffix(GMAIL, url.host)

(* self.engine.load(): the Arc the cell holds *)
ArcSwapLoad(cell) == cell

(* selector { display: none !important; }\n *)
CssRule(selector) == <<selector, " { display: none !important; }\n">>

(* The rest of should_block_request once the engine is loaded *)
BlockDecision(e, url, source_url, request_type) ==
    LET req == RequestNew(url, source_url, request_type)
    IN  IF req.some THEN CheckNetworkRequest(e, req.val) ELSE FALSE

(* The rest of get_cosmetic_css once the engine is loaded *)
CosmeticCss(e, url) == {CssRule(s) : s \in UrlCosmeticResources(e, url)}

(* A webview thread enters should_block_request *)
CallShouldBlockRequest(r, q) ==
    /\ rd[r].pc = "idle"
    /\ rd' = [rd EXCEPT ![r] = [IdleReader EXCEPT
                    !.pc = "allowlist", !.op = "should_block_request",
                    !.url = q[1], !.source_url = q[2], !.request_type = q[3],
                    !.started = Len(published)]]
    /\ UNCHANGED <<now, ticks, macos, engine, safari_rules_json, allowlist,
                   engineFile, safariFile, allowlistFile, published, run, wr>>
    /\ UNCHANGED browserVars

(* get_cosmetic_rules spawns a task that enters get_cosmetic_css *)
CallGetCosmeticCss(r, u) ==
    /\ rd[r].pc = "idle"
    /\ rd' = [rd EXCEPT ![r] = [IdleReader EXCEPT
                    !.pc = "allowlist", !.op = "get_cosmetic_css", !.url = u,
                    !.started = Len(published)]]
    /\ UNCHANGED <<now, ticks, macos, engine, safari_rules_json, allowlist,
                   engineFile, safariFile, allowlistFile, published, run, wr>>
    /\ UNCHANGED browserVars

(* Variant of AllowlistCheck: an entry found expired is removed from the table *)
AllowlistCheckPurging(r) ==
    /\ rd[r].pc = "allowlist"
    /\ LET u == IF rd[r].op = "should_block_request" THEN rd[r].source_url ELSE rd[r].url
           exempt ==
              IF rd[r].op = "should_block_request"
              THEN AllowlistBypass(allowlist, rd[r].source_url, now)
              ELSE is_exception(allowlist, rd[r].url, now) \/ is_webmail_domain(rd[r].url)
       IN  /\ rd' = [rd EXCEPT ![r].pc = IF exempt THEN "done" ELSE "load"]
           /\ allowlist' =
                 IF /\ extract_domain(u).some
                    /\ extract_domain(u).val \in DOMAIN allowlist
                    /\ ~is_exception(allowlist, u, now)
                 THEN MapRemove(allowlist, extract_domain(u).val)
                 ELSE allowlist
    /\ UNCHANGED <<now, ticks, macos, engine, safari_rules_json,
                   engineFile, safariFile, allowlistFile, published, run, wr>>
    /\ UNCHANGED browserVars

(* The allowlist look-up that opens both calls: return at once, or go on to
   the engine *)
AllowlistCheck(r) ==
    /\ rd[r].pc = "allowlist"
    /\ LET exempt ==
              IF rd[r].op = "should_block_request"
              THEN AllowlistBypass(allowlist, rd[r].source_url, now)
              ELSE is_exception(allowlist, rd[r].url, now) \/ is_webmail_domain(rd[r].url)
       IN  rd' = [rd EXCEPT ![r].pc = IF exempt THEN "done" ELSE "load"]
    /\ UNCHANGED <<now, ticks, macos, engine, safari_rules_json, allowlist,
                   engineFile, safariFile, allowlistFile, published, run, wr>>
    /\ UNCHANGED browserVars

(* Variant of LoadEngine: the engine sits behind a lock that update_rules
   holds from the cache write to the store *)
LoadEngineUnderLock(r) ==
    /\ rd[r].pc = "load"
    /\ \A p \in Runs : run[p].pc \notin {"write_engine", "store_engine"}
    /\ rd' = [rd EXCEPT ![r].snap = Some(ArcSwapLoad(engine)),
                        ![r].pc = "eval"]
    /\ UNCHANGED <<now, ticks, macos, engine, safari_rules_json, allowlist,
                   engineFile, safariFile, allowlistFile, published, run, wr>>
    /\ UNCHANGED browserVars

(* Variant of LoadEngine: the engine is read in two parts, the pointer now and
   the rules of the value the cell held at start-up *)
LoadEngineTorn(r) ==
    /\ rd[r].pc = "load"
    /\ rd' = [rd EXCEPT ![r].snap = Some(MkEngine(engine.id, published[1].rules)),
                        ![r].pc = "eval"]
    /\ UNCHANGED <<now, ticks, macos, engine, safari_rules_json, allowlist,
                   engineFile, safariFile, allowlistFile, published, run, wr>>
    /\ UNCHANGED browserVars

(* Variant of LoadEngine: the call uses the engine it saw at start-up *)
LoadEngineStale(r) ==
    /\ rd[r].pc = "load"
    /\ rd' = [rd EXCEPT ![r].snap = Some(published[1]), ![r].pc = "eval"]
    /\ UNCHANGED <<now, ticks, macos, engine, safari_rules_json, allowlist,
                   engineFile, safariFile, allowlistFile, published, run, wr>>
    /\ UNCHANGED browserVars

(* let engine = self.engine.load() *)
LoadEngine(r) ==
    /\ rd[r].pc = "load"
    /\ rd' = [rd EXCEPT ![r].snap = Some(ArcSwapLoad(engine)),
                        ![r].pc = "eval"]
    /\ UNCHANGED <<now, ticks, macos, engine, safari_rules_json, allowlist,
                   engineFile, safariFile, allowlistFile, published, run, wr>>
    /\ UNCHANGED browserVars

(* The query on the loaded snapshot, and the return value *)
Evaluate(r) ==
    /\ rd[r].pc = "eval"
    /\ rd' = [rd EXCEPT
          ![r].blocked = IF rd[r].op = "should_block_request"
                         THEN BlockDecision(rd[r].snap.val, rd[r].url,
                                            rd[r].source_url, rd[r].request_type)
                         ELSE FALSE,
          ![r].css = IF rd[r].op = "get_cosmetic_css"
                     THEN CosmeticCss(rd[r].snap.val, rd[r].url)
                     ELSE {},
          ![r].pc = "done"]
    /\ UNCHANGED <<now, ticks, macos, engine, safari_rules_json, allowlist,
                   engineFile, safariFile, allowlistFile, published, run, wr>>
    /\ UNCHANGED browserVars

(* AdBlockManager::get_exceptions: every entry of the table *)
ListExceptions(table) == {<<k, table[k]>> : k \in DOMAIN table}

GetExceptions(r) ==
    /\ rd[r].pc = "idle"
    /\ rd' = [rd EXCEPT ![r] = [IdleReader EXCEPT
                 !.pc = "done", !.op = "get_exceptions",
                 !.exceptions = ListExceptions(allowlist),
                 !.started = Len(published)]]
    /\ UNCHANGED <<now, ticks, macos, engine, safari_rules_json, allowlist,
                   engineFile, safariFile, allowlistFile, published, run, wr>>
    /\ UNCHANGED browserVars

(* get_safari_rules: a clone of the String self.safari_rules_json.load() gives *)
GetSafariRules(r) ==
    /\ rd[r].pc = "idle"
    /\ rd' = [rd EXCEPT ![r] = [IdleReader EXCEPT
                 !.pc = "done", !.op = "get_safari_rules",
                 !.rules = Some(ArcSwapLoad(safari_rules_json)),
                 !.started = Len(published)]]
    /\ UNCHANGED <<now, ticks, macos, engine, safari_rules_json, allowlist,
                   engineFile, safariFile, allowlistFile, published, run, wr>>
    /\ UNCHANGED browserVars

(* The caller has its answer; the thread is free for the next call *)
Return(r) ==
    /\ rd[r].pc = "done"
    /\ rd' = [rd EXCEPT ![r] = IdleReader]
    /\ UNCHANGED <<now, ticks, macos, engine, safari_rules_json, allowlist,
                   engineFile, safariFile, allowlistFile, published, run, wr>>
    /\ UNCHANGED browserVars

----------------------------------------------------------------------------
(* The write path of the allowlist: set_site_exception, add_exception,
   remove_exception, save_allowlist *)

(* Variant of DurationSecs: "24hours" gets the Duration of "1hour" *)
DurationSecsDayAsHour(duration_type) ==
    IF duration_type \in {"1hour", "24hours"} THEN Some(3600) ELSE None

(* match duration_type.as_str(): the Duration handed to add_exception *)
DurationSecs(duration_type) ==
    IF duration_type = "1hour" THEN Some(3600)
    ELSE IF duration_type = "24hours" THEN Some(86400)
    ELSE None

(* add_exception: Some(d) => Until(SystemTime::now() + d), None => Forever *)
ExpiryOf(duration, time) ==
    IF duration.some THEN Until(time + duration.val) ELSE Forever

(* set_site_exception up to the DashMap insert or remove; the call then
   goes on to save_allowlist. A URL without a domain and an unknown duration
   type return at once. *)
SetSiteException(w, url, duration_type) ==
    /\ wr[w].pc = "idle"
    /\ LET domain == extract_domain(url)
       IN  IF ~domain.some \/ duration_type \notin {"1hour", "24hours", "forever", "off"}
           THEN UNCHANGED <<allowlist, wr>>
           ELSE /\ allowlist' =
                     IF duration_type = "off"
                     THEN MapRemove(allowlist, domain.val)
                     ELSE MapInsert(allowlist, domain.val,
                                    ExpiryOf(DurationSecs(duration_type), now))
                /\ wr' = [wr EXCEPT
                             ![w].pc = "save",
                             ![w].duration_type = duration_type,
                             ![w].domain = domain.val,
                             ![w].expiry = IF duration_type = "off"
                                           THEN None
                                           ELSE Some(ExpiryOf(DurationSecs(duration_type), now))]
    /\ UNCHANGED <<now, ticks, macos, engine, safari_rules_json,
                   engineFile, safariFile, allowlistFile, published, run, rd>>
    /\ UNCHANGED browserVars

(* Variant of CollectAllowlist: the table saved is the one read from the file,
   without the change just made in memory *)
CollectAllowlistFromFile(w) ==
    /\ wr[w].pc = "save"
    /\ wr' = [wr EXCEPT ![w].map = NewAllowlist(allowlistFile), ![w].pc = "write"]
    /\ UNCHANGED <<now, ticks, macos, engine, safari_rules_json, allowlist,
                   engineFile, safariFile, allowlistFile, published, run, rd>>
    /\ UNCHANGED browserVars

(* save_allowlist: self.allowlist.iter()...collect() *)
CollectAllowlist(w) ==
    /\ wr[w].pc = "save"
    /\ wr' = [wr EXCEPT ![w].map = allowlist, ![w].pc = "write"]
    /\ UNCHANGED <<now, ticks, macos, engine, safari_rules_json, allowlist,
                   engineFile, safariFile, allowlistFile, published, run, rd>>
    /\ UNCHANGED browserVars

(* save_allowlist: let _ = fs::write(path, to_string_pretty(&map)) *)
WriteAllowlist(w) ==
    /\ wr[w].pc = "write"
    /\ \E f \in FsWrite(allowlistFile, AllowlistJson(wr[w].map)) : allowlistFile' = f
    /\ wr' = [wr EXCEPT ![w] = IdleWriter]
    /\ UNCHANGED <<now, ticks, macos, engine, safari_rules_json, allowlist,
                   engineFile, safariFile, published, run, rd>>
    /\ UNCHANGED browserVars

(* The wall clock advances by d seconds *)
Tick(d) ==
    /\ ticks < MaxTicks
    /\ now' = now + d
    /\ ticks' = ticks + 1
    /\ UNCHANGED <<macos, engine, safari_rules_json, allowlist, engineFile,
                   safariFile, allowlistFile, published, run, rd, wr>>
    /\ UNCHANGED browserVars

----------------------------------------------------------------------------
(* A crash of the process and the next start-up *)

(* What a file holds after the process died: fs::write truncates the file and
   then writes the bytes, so a write that had begun leaves the old content
   (not yet opened), a part of the new content, or all of it *)
FileAfterCrash(old, pending) ==
    {old} \cup UNION {{Corrupt, data} : data \in pending}

(* The fs::write calls of the update_rules threads that are under way *)
PendingEngineWrites ==
    {Serialize(run[p].new_engine) : p \in {q \in Runs : run[q].pc = "write_engine"}}
PendingSafariWrites ==
    {FinalSafariJson(run[p].filter_set) : p \in {q \in Runs : run[q].pc = "safari"}}

(* The process is killed while update_rules threads are in flight, and the
   application is started again: AdBlockManager::new builds its state from
   the files the dead process left *)
CrashAndRestart ==
    /\ \E p \in Runs : run[p].pc \notin {"idle", "aborted", "done"}
    /\ engineFile' \in FileAfterCrash(engineFile, PendingEngineWrites)
    /\ safariFile' \in FileAfterCrash(safariFile, PendingSafariWrites)
    /\ engine' = NewEngine(engineFile')
    /\ published' = <<NewEngine(engineFile')>>
    /\ safari_rules_json' = NewSafariJson(safariFile')
    /\ allowlist' = NewAllowlist(allowlistFile)
    /\ run' = [p \in Runs |-> IdleRun]
    /\ rd' = [r \in Readers |-> IdleReader]
    /\ wr' = [w \in Writers |-> IdleWriter]
    /\ tabs' = <<>>
    /\ active_tab_id' = None
    /\ events' = <<>>
    /\ ui' = [t \in TabThreads |-> IdleTabCall]
    /\ closed_tabs' = <<>>
    /\ cl' = [c \in Closers |-> IdleCloser]
    /\ archived' = 0
    /\ popped' = 0
    /\ evicted' = 0
    /\ history' = <<>>
    /\ cmd' = [t \in CmdThreads |-> IdleCmd]
    /\ tabs_mutex' = None
    /\ active_mutex' = None
    /\ created' = 0
    /\ dropdown_ready' = FALSE
    /\ pending_payload' = None
    /\ dd' = [t \in DropdownThreads |-> IdleDropdownCall]
    /\ dropdown_events' = <<>>
    /\ UNCHANGED <<now, ticks, macos, allowlistFile>>

(* The application is closed with no update_rules thread and no
   set_site_exception call in flight, and started again:
   AdBlockManager::new builds its state from the files as they are *)
ExitAndRestart ==
    /\ \A p \in Runs : run[p].pc \in {"idle", "aborted", "done"}
    /\ \A w \in Writers : wr[w].pc = "idle"
    /\ engine' = NewEngine(engineFile)
    /\ published' = <<NewEngine(engineFile)>>
    /\ safari_rules_json' = NewSafariJson(safariFile)
    /\ allowlist' = NewAllowlist(allowlistFile)
    /\ run' = [p \in Runs |-> IdleRun]
    /\ rd' = [r \in Readers |-> IdleReader]
    /\ wr' = [w \in Writers |-> IdleWriter]
    /\ tabs' = <<>>
    /\ active_tab_id' = None
    /\ events' = <<>>
    /\ ui' = [t \in TabThreads |-> IdleTabCall]
    /\ closed_tabs' = <<>>
    /\ cl' = [c \in Closers |-> IdleCloser]
    /\ archived' = 0
    /\ popped' = 0
    /\ evicted' = 0
    /\ history' = <<>>
    /\ cmd' = [t \in CmdThreads |-> IdleCmd]
    /\ tabs_mutex' = None
    /\ active_mutex' = None
    /\ created' = 0
    /\ dropdown_ready' = FALSE
    /\ pending_payload' = None
    /\ dd' = [t \in DropdownThreads |-> IdleDropdownCall]
    /\ dropdown_events' = <<>>
    /\ UNCHANGED <<now, ticks, macos, engineFile, safariFile, allowlistFile>>

----------------------------------------------------------------------------
(* Specifications *)

PipelineA(p) ==
    \/ SpawnUpdateThread(p)
    \/ Fetch(p)
    \/ Compile(p)
    \/ WriteEngineCache(p)
    \/ StoreEngine(p)

PipelineB(p) ==
    \/ WriteSafariCache(p)
    \/ StoreSafari(p)

QueryStep(r) ==
    \/ AllowlistCheck(r)
    \/ LoadEngine(r)
    \/ Evaluate(r)
    \/ Return(r)

(* The update pipeline against concurrent queries, Windows/Linux *)
Next ==
    \/ \E p \in Runs : PipelineA(p)
    \/ \E r \in Readers :
          \/ \E q \in HotRequests : CallShouldBlockRequest(r, q)
          \/ \E u \in HotPages : CallGetCosmeticCss(r, u)
          \/ QueryStep(r)

Spec == Init /\ [][Next]_vars

(* The update pipeline with its Safari half and the threads that apply the
   Safari rules to webviews, macOS *)
NextMac ==
    \/ \E p \in Runs : PipelineA(p) \/ PipelineB(p)
    \/ \E r \in Readers : GetSafariRules(r) \/ Return(r)

SpecMac == InitMac /\ [][NextMac]_vars

(* Start-up on a non-declarative platform with any allowlist file and any
   engine cache: the allowlist, the clock and the queries, no pipeline run *)
InitAllow ==
    \E ef \in {Absent, Serialize(PriorEngine)}, af \in InitAllowlistFiles :
        New(ef, Absent, af, FALSE)

NextAllow ==
    \/ \E w \in UiThread :
          \/ \E u \in ExceptionUrls, d \in ExceptionDurations : SetSiteException(w, u, d)
          \/ CollectAllowlist(w)
          \/ WriteAllowlist(w)
    \/ \E r \in Readers :
          \/ \E q \in Requests : CallShouldBlockRequest(r, q)
          \/ \E u \in PageUrls : CallGetCosmeticCss(r, u)
          \/ QueryStep(r)
          \/ GetExceptions(r)
    \/ \E d \in TickSteps : Tick(d)

SpecAllow == InitAllow /\ [][NextAllow]_vars

(* Several threads in set_site_exception at once (AdBlockManager is shared
   through an Arc and its methods take &self), no write of the allowlist file
   pending at start-up *)
InitWriters ==
    \E af \in InitAllowlistFiles : New(Absent, Absent, af, FALSE)

NextWriters ==
    \E w \in Writers :
        \/ \E u \in ExceptionUrls, d \in ExceptionDurations : SetSiteException(w, u, d)
        \/ CollectAllowlist(w)
        \/ WriteAllowlist(w)

SpecWriters == InitWriters /\ [][NextWriters]_vars

(* The user's exception actions across restarts of the application, with
   every outcome of the write of adblock_allowlist.json *)
NextRestart ==
    \/ \E w \in Writers :
          \/ \E u \in ExceptionUrls, d \in ExceptionDurations : SetSiteException(w, u, d)
          \/ CollectAllowlist(w)
          \/ WriteAllowlist(w)
    \/ ExitAndRestart

SpecRestart == InitWriters /\ [][NextRestart]_vars

(* Every duration class the settings surface sends, and one it does not *)
DurationTypes == {"1hour", "24hours", "forever", "off", "1week"}

(* One thread in set_site_exception with every duration class, and the clock *)
NextDurations ==
    \/ \E w \in UiThread :
          \/ \E u \in ExceptionUrls, d \in DurationTypes : SetSiteException(w, u, d)
          \/ CollectAllowlist(w)
          \/ WriteAllowlist(w)
    \/ \E d \in TickSteps : Tick(d)

SpecDurations == InitWriters /\ [][NextDurations]_vars

(* The update pipeline and the user's exception actions together, with every
   outcome of their disk writes, Windows/Linux *)
NextPersist ==
    \/ \E p \in Runs : PipelineA(p)
    \/ \E w \in UiThread :
          \/ \E d \in {"forever", "off"} : SetSiteException(w, Url(NEWS), d)
          \/ CollectAllowlist(w)
          \/ WriteAllowlist(w)

SpecPersist == Init /\ [][NextPersist]_vars

(* The steps of the thread that runs update_rules once it is spawned *)
RunStep(p) ==
    \/ Fetch(p)
    \/ Compile(p)
    \/ WriteEngineCache(p)
    \/ StoreEngine(p)
    \/ WriteSafariCache(p)
    \/ StoreSafari(p)

(* The macOS pipeline with its threads scheduled fairly: a spawned thread
   that can take a step eventually takes one. reqwest::blocking::get builds a
   client with the default 30 s timeout, so each fetch ends with a response
   or with an error. *)
NextLive == \E p \in Runs : PipelineA(p) \/ PipelineB(p)

SpecLive == InitMac /\ [][NextLive]_vars /\ \A p \in Runs : WF_vars(RunStep(p))

(* The macOS pipeline across crashes of the process *)
NextCrash ==
    \/ \E p \in Runs : PipelineA(p) \/ PipelineB(p)
    \/ CrashAndRestart

SpecCrash == InitMac /\ [][NextCrash]_vars

----------------------------------------------------------------------------
(* Properties of the allowlist (checked under SpecAllow) *)

(* The URL's host is the domain name D *)
HasDomain(url, D) == url.wellformed /\ url.hostkind = "domain" /\ url.host = D

(* D has an entry that is Forever, or Until(t) with the time before t *)
ActiveEntry(table, D, time) ==
    /\ D \in DOMAIN table
    /\ \/ table[D].tag = "Forever"
       \/ table[D].tag = "Until" /\ time < table[D].t

(* D has an entry Until(t) and the time is t or later *)
ExpiredEntry(table, D, time) ==
    /\ D \in DOMAIN table
    /\ table[D].tag = "Until"
    /\ time >= table[D].t

(* Call r takes its allowlist look-up in this step *)
ChecksAllowlist(r) == rd[r].pc = "allowlist" /\ rd'[r].pc # "allowlist"

(* C1: when the initiator's domain D has an active allowlist entry (Forever,
   or Until(t) with the current time before t), should_block_request returns
   false whatever the request URL, the resource type and the engine, and
   returns without loading the engine. *)
C1_AllowlistOverridesEngine ==
    [][\A r \in Readers, D \in DOMAIN allowlist :
          ( /\ ChecksAllowlist(r)
            /\ rd[r].op = "should_block_request"
            /\ HasDomain(rd[r].source_url, D)
            /\ ActiveEntry(allowlist, D, now) )
          => ( /\ rd'[r].pc = "done"
               /\ rd'[r].blocked = FALSE
               /\ rd'[r].snap = None )]_vars

(* A should_block_request call has returned false without an engine snapshot,
   for a request the engine in the store blocks *)
C1_Witness ==
    \E r \in Readers :
        /\ rd[r].pc = "done"
        /\ rd[r].op = "should_block_request"
        /\ rd[r].snap = None
        /\ rd[r].blocked = FALSE
        /\ \E D \in DOMAIN allowlist : HasDomain(rd[r].source_url, D)
        /\ BlockDecision(engine, rd[r].url, rd[r].source_url, rd[r].request_type)

(* C2: an Until(t) entry is active iff the current time is strictly before t.
   A should_block_request or get_cosmetic_css call that looks the entry up at
   a time >= t (t itself included) goes on exactly as with no entry, to the
   engine (get_cosmetic_css: unless the page is a webmail domain), and returns
   what the engine snapshot answers; a call that looks it up before t returns
   at once. *)
C2_UntilActiveIffBefore ==
    [][\A r \in Readers :
          /\ \A D \in DOMAIN allowlist :
                ( /\ ChecksAllowlist(r)
                  /\ allowlist[D].tag = "Until"
                  /\ HasDomain(IF rd[r].op = "should_block_request"
                               THEN rd[r].source_url ELSE rd[r].url, D) )
                => IF ExpiredEntry(allowlist, D, now)
                   THEN rd'[r].pc =
                          IF rd[r].op = "get_cosmetic_css" /\ is_webmail_domain(rd[r].url)
                          THEN "done" ELSE "load"
                   ELSE rd'[r].pc = "done" /\ rd'[r].snap = None
          /\ (rd[r].pc = "eval" /\ rd'[r].pc = "done")
                => /\ rd'[r].snap = rd[r].snap
                   /\ rd[r].op = "should_block_request" =>
                        rd'[r].blocked =
                           ( /\ rd[r].url.wellformed
                             /\ CheckNetworkRequest(rd[r].snap.val,
                                   RequestNew(rd[r].url, rd[r].source_url,
                                              rd[r].request_type).val) )
                   /\ rd[r].op = "get_cosmetic_css" =>
                        rd'[r].css = {CssRule(sel) :
                                        sel \in UrlCosmeticResources(rd[r].snap.val, rd[r].url)}
      ]_vars

(* At the very second t of an Until(t) entry for the initiator's domain, a
   should_block_request call has gone to the engine and blocked the request *)
C2_Witness ==
    \E r \in Readers, D \in DOMAIN allowlist :
        /\ rd[r].pc = "done"
        /\ rd[r].op = "should_block_request"
        /\ HasDomain(rd[r].source_url, D)
        /\ allowlist[D].tag = "Until"
        /\ allowlist[D].t = now
        /\ rd[r].snap # None
        /\ rd[r].blocked = TRUE

(* C3: get_exceptions never returns a (domain, Until(t)) pair whose t has
   already passed at the time of the call, whether the entry expired in this
   process or was loaded expired from adblock_allowlist.json. *)
C3_ListHasNoExpiredEntry ==
    [][\A r \in Readers :
          (rd[r].pc = "idle" /\ rd'[r].pc = "done" /\ rd'[r].op = "get_exceptions")
          => \A pair \in rd'[r].exceptions :
                pair[2].tag = "Until" => now < pair[2].t]_vars

----------------------------------------------------------------------------
(* Properties of the engine cell and the update pipeline (checked under Spec
   and SpecMac) *)

(* The place of an engine in the order of publication (ids are unique) *)
PubIndex(e) == CHOOSE k \in 1..Len(published) : published[k].id = e.id

(* The filters of the texts that run record r fetched, in any order *)
FetchedFilters(r) ==
    UNION {{line \in Range(r.fetched[k].text) : line.kind # "junk"} :
              k \in {j \in 1..Len(r.fetched) : r.fetched[j].ok}}

(* The compile of run p has completed *)
Compiled(p) == run[p].pc \in {"write_engine", "store_engine", "safari", "store_safari", "done"}

(* Run p has stored its engine *)
Stored(p) == run[p].pc \in {"safari", "store_safari", "done"}

(* C4: every engine a load() returned is a whole published value: the
   start-up engine, or the complete engine some update_rules run compiled and
   passed to store (all the filters of that run's fetched texts and the custom
   rules, under that run's allocation), never a mix of two; and a call
   evaluates the one snapshot it loaded. *)
C4_LoadReturnsWholeEngine ==
    /\ \A k \in 1..Len(published) :
          IF k = 1
          THEN published[k] \in {EngineDefault, PriorEngine}
          ELSE /\ published[k].id \in Runs
               /\ Stored(published[k].id)
               /\ published[k] = run[published[k].id].new_engine
               /\ published[k].rules =
                     FetchedFilters(run[published[k].id]) \cup Range(CUSTOM_EXCEPTION_RULES)
    /\ \A r \in Readers :
          rd[r].snap # None => \E k \in 1..Len(published) : rd[r].snap.val = published[k]
    /\ \A r \in Readers :
          rd[r].pc = "done" /\ rd[r].snap # None =>
             /\ rd[r].op = "should_block_request" =>
                   rd[r].blocked = BlockDecision(rd[r].snap.val, rd[r].url,
                                                 rd[r].source_url, rd[r].request_type)
             /\ rd[r].op = "get_cosmetic_css" =>
                   rd[r].css = CosmeticCss(rd[r].snap.val, rd[r].url)

(* A call holds the snapshot it loaded before a store replaced the engine *)
C4_Witness ==
    \E r \in Readers :
        /\ rd[r].pc = "eval"
        /\ rd[r].snap # None
        /\ rd[r].snap.val # engine
        /\ rd[r].snap.val = published[Len(published) - 1]

(* C5: a should_block_request or get_cosmetic_css call evaluates the engine
   that was in the store when the call started or one published later, never
   an earlier one. *)
C5_CallSeesLatestPublished ==
    \A r \in Readers :
        rd[r].snap # None =>
           /\ \E k \in 1..Len(published) : published[k].id = rd[r].snap.val.id
           /\ PubIndex(rd[r].snap.val) >= rd[r].started

(* A call that started after one publication evaluates the next one; the
   first engine is no longer used *)
C5_Witness ==
    \E r \in Readers :
        /\ rd[r].pc = "done"
        /\ rd[r].snap # None
        /\ rd[r].started = 2
        /\ PubIndex(rd[r].snap.val) = 3

(* C6: no step of a run that obtained no filter lines changes the engine in
   the store, the Safari rules holder, adblock_engine.bin or safari_rules.json,
   and such a run returns from the lines_count check without compiling; as
   long as no run has compiled, the engine, the Safari rules and both cache
   files are what they were at start-up. *)
C6_FailedRunChangesNothing ==
    /\ [][\A p \in Runs :
             (run'[p] # run[p] /\ run'[p].lines_count = 0)
             => /\ UNCHANGED <<engine, safari_rules_json, engineFile, safariFile>>
                /\ run'[p].pc \in {"fetch", "check", "aborted"}
                /\ run[p].pc = "check" => run'[p].pc = "aborted"
                /\ run'[p].new_engine = EngineDefault]_vars
    /\ []( (\A p \in Runs : ~Compiled(p))
           => /\ engineFile \in InitEngineFiles
              /\ safariFile \in InitSafariFiles
              /\ engine = NewEngine(engineFile)
              /\ safari_rules_json = NewSafariJson(safariFile)
              /\ published = <<engine>> )

(* A run whose fetches all failed has returned, while caches and engine exist *)
C6_Witness ==
    \E p \in Runs :
        /\ run[p].pc = "aborted"
        /\ \A k \in 1..Len(run[p].fetched) : ~run[p].fetched[k].ok
        /\ engine.rules # {}
        /\ engineFile.tag = "bin"
        /\ safariFile.tag = "safari"

(* No source of run record r delivered a filter rule *)
NoRulesDelivered(r) ==
    \A k \in 1..Len(r.fetched) :
        ~r.fetched[k].ok \/ \A line \in Range(r.fetched[k].text) : line.kind = "junk"

(* C7: after a pipeline run in which no source delivered filter rules (each
   fetch failed or returned a body without filter rules), the engine in the
   store still blocks every request it blocked before the run's store. *)
C7_OutageKeepsBlocking ==
    [][\A p \in Runs :
          (run'[p] # run[p] /\ Len(run[p].fetched) = Len(urls) /\ NoRulesDelivered(run[p]))
          => \A q \in Requests :
                BlockDecision(engine, q[1], q[2], q[3])
                   => BlockDecision(engine', q[1], q[2], q[3])]_vars

(* C8: once the store holds a non-empty engine it never holds an empty one
   again: every step leaves the engine in place or replaces it with the
   non-empty engine a run compiled. *)
C8_StoreNeverEmptiedAgain ==
    [][engine.rules # {} =>
          /\ engine'.rules # {}
          /\ \/ engine' = engine
             \/ \E p \in Runs : run[p].pc = "store_engine" /\ engine' = run[p].new_engine]_vars

(* A loaded engine has been replaced by a newly compiled one *)
C8_Witness ==
    /\ Len(published) >= 2
    /\ published[1].rules # {}
    /\ engine # published[1]
    /\ engine.rules # {}

(* C9 as stated: a run in which one fetch failed and another succeeded does
   not abort. *)
C9_PartialFailureNeverAborts ==
    \A p \in Runs :
        ( /\ Len(run[p].fetched) = Len(urls)
          /\ \E k \in 1..Len(urls) : ~run[p].fetched[k].ok
          /\ \E k \in 1..Len(urls) : run[p].fetched[k].ok )
        => run[p].pc # "aborted"

(* C9 amended: a run in which one fetch failed and another returned a body of
   at least one line does not abort: past the lines_count check it has
   compiled an engine of exactly the filters of the texts that arrived plus
   the custom rules, and when it is done that engine has been published. *)
C9_PartialFailureStillPublishes ==
    \A p \in Runs :
        ( /\ Len(run[p].fetched) = Len(urls)
          /\ run[p].pc # "check"
          /\ \E k \in 1..Len(urls) : ~run[p].fetched[k].ok
          /\ \E k \in 1..Len(urls) :
                run[p].fetched[k].ok /\ Len(run[p].fetched[k].text) > 0 )
        => /\ Compiled(p)
           /\ run[p].new_engine.rules =
                 FetchedFilters(run[p]) \cup Range(CUSTOM_EXCEPTION_RULES)
           /\ Stored(p) => \E k \in 2..Len(published) : published[k] = run[p].new_engine

(* A run whose first fetch failed and whose second delivered filters is done
   and its engine, holding the second list's filter, is in the store *)
C9_Witness ==
    \E p \in Runs :
        /\ run[p].pc = "done"
        /\ ~run[p].fetched[1].ok
        /\ run[p].fetched[2].ok
        /\ B_TRK \in engine.rules
        /\ engine = run[p].new_engine

(* C10: every engine update_rules compiles and publishes contains all of
   CUSTOM_EXCEPTION_RULES, whichever sources succeeded. *)
C10_CustomRulesInEveryEngine ==
    /\ \A k \in 2..Len(published) : Range(CUSTOM_EXCEPTION_RULES) \subseteq published[k].rules
    /\ \A p \in Runs : Compiled(p) => Range(CUSTOM_EXCEPTION_RULES) \subseteq run[p].new_engine.rules

(* An engine compiled from an error page alone is in the store and holds the
   custom rules *)
C10_Witness ==
    /\ Len(published) >= 2
    /\ engine = published[Len(published)]
    /\ engine.id \in Runs
    /\ engine.rules = Range(CUSTOM_EXCEPTION_RULES)

----------------------------------------------------------------------------
(* Properties of the pipeline's scheduling and of the cache files (checked
   under SpecMac and SpecCrash) *)

(* Thread p is inside update_rules *)
InFlight(p) == run[p].pc \notin {"idle", "aborted", "done"}

(* C11: at most one update_rules run is in flight at any time: overlapping
   calls of spawn_update_thread never give two runs executing at once against
   adblock_engine.bin and safari_rules.json. *)
C11_AtMostOneRunInFlight ==
    Cardinality({p \in Runs : InFlight(p)}) <= 1

(* The process dies in this step and is started again *)
CrashStep ==
    /\ \E p \in Runs : InFlight(p)
    /\ \A p \in Runs : run'[p].pc = "idle"

(* C12: when the process crashes at any point of a pipeline run, also in the
   middle of writing adblock_engine.bin or safari_rules.json, each file found
   at the next start-up is the complete previous content or the complete new
   content, never a partly written one. *)
C12_CrashLeavesWholeCacheFiles ==
    [][CrashStep =>
          /\ engineFile' \in {engineFile} \cup PendingEngineWrites
          /\ safariFile' \in {safariFile} \cup PendingSafariWrites]_vars

----------------------------------------------------------------------------
(* Properties of the allowlist's persistence (checked under SpecAllow and
   SpecWriters) *)

(* The set_site_exception call of thread w returns in this step *)
Returns(w) == wr[w].pc # "idle" /\ wr'[w].pc = "idle"

(* The table holds the change the call of writer record c made *)
HoldsChange(table, c) ==
    IF c.expiry.some
    THEN c.domain \in DOMAIN table /\ table[c.domain] = c.expiry.val
    ELSE c.domain \notin DOMAIN table

(* C13: add_exception and remove_exception return only through the write of
   adblock_allowlist.json, and unless that write fails the file then holds the
   full in-memory table with the call's change in it. *)
C13_ReturnsAfterFullRewrite ==
    [][\A w \in Writers :
          Returns(w) =>
             /\ wr[w].pc = "write"
             /\ HoldsChange(allowlist, wr[w])
             /\ HoldsChange(wr[w].map, wr[w])
             /\ wr[w].map = allowlist
             /\ \/ allowlistFile' = AllowlistJson(allowlist')
                \/ allowlistFile' \in {allowlistFile, Corrupt}]_vars

(* A call that added www.news.example has returned and the file holds the
   table with that entry *)
C13_Witness ==
    /\ \A w \in Writers : wr[w].pc = "idle"
    /\ WWW_NEWS \in DOMAIN allowlist
    /\ allowlistFile = AllowlistJson(allowlist)

(* C14: with several threads in add_exception and remove_exception at once,
   when the last of the calls returns (its write having taken place) the
   content of adblock_allowlist.json equals the in-memory table. *)
C14_FileEqualsTableWhenAllReturned ==
    [][\A w \in Writers :
          ( /\ Returns(w)
            /\ allowlistFile' = AllowlistJson(wr[w].map)
            /\ \A v \in Writers \ {w} : wr[v].pc = "idle" )
          => allowlistFile' = AllowlistJson(allowlist')]_vars

----------------------------------------------------------------------------
(* Properties of start-up (checked under SpecCrash) *)

(* C15: start-up never fails because of the engine cache: until a run of this
   process has compiled, the manager exists and its engine is the one
   adblock_engine.bin deserializes to, or the empty engine when the file is
   absent or does not deserialize. *)
C15_StartupSurvivesEngineCache ==
    (\A p \in Runs : ~Compiled(p))
    => /\ engine = IF engineFile.tag = "bin"
                   THEN MkEngine(0, engineFile.rules)
                   ELSE EngineDefault
       /\ engineFile.tag \in {"absent", "corrupt"} => engine.rules = {}
       /\ published = <<engine>>
       /\ \A p \in Runs : run[p].pc \in {"idle", "fetch", "check", "aborted"}

(* The process has started again on the cache the update run of an earlier
   process wrote *)
C15_Witness ==
    /\ \A p \in Runs : run[p].pc = "idle"
    /\ engineFile.tag = "bin"
    /\ B_TRK \in engine.rules
    /\ engine.id = 0

----------------------------------------------------------------------------
(* Properties of the read path (checked under SpecAllow and Spec) *)

(* C16: should_block_request fails open on malformed input: a call whose
   request URL or initiator URL does not parse returns false, whatever the
   engine and the allowlist hold. *)
C16_MalformedInputNeverBlocked ==
    \A r \in Readers :
        ( /\ rd[r].pc = "done"
          /\ rd[r].op = "should_block_request"
          /\ ~rd[r].url.wellformed \/ ~rd[r].source_url.wellformed )
        => rd[r].blocked = FALSE

(* The page's host is mail.google.com, gmail.com or a subdomain of either *)
WebmailPage(url) ==
    /\ url.wellformed
    /\ url.hostkind = "domain"
    /\ \E W \in {MAIL_GOOGLE, GMAIL} : IsSuffix(W, url.host)

(* C17: get_cosmetic_css returns the empty string without loading the engine
   when the page's domain has an active allowlist entry or is a webmail domain
   (mail.google.com, gmail.com or a subdomain); for any other page it loads
   the engine in the store and returns one 'selector { display: none
   !important; }' line per hide selector that snapshot has for the page. *)
C17_CosmeticCssExemptOrSelectors ==
    [][\A r \in Readers :
          rd[r].op = "get_cosmetic_css" =>
             /\ ChecksAllowlist(r) =>
                   IF \/ \E D \in DOMAIN allowlist :
                            HasDomain(rd[r].url, D) /\ ActiveEntry(allowlist, D, now)
                      \/ WebmailPage(rd[r].url)
                   THEN rd'[r].pc = "done" /\ rd'[r].css = {} /\ rd'[r].snap = None
                   ELSE rd'[r].pc = "load"
             /\ (rd[r].pc = "load" /\ rd'[r].pc # "load")
                   => rd'[r].pc = "eval" /\ rd'[r].snap = Some(engine)
             /\ (rd[r].pc = "eval" /\ rd'[r].pc # "eval")
                   => /\ rd'[r].pc = "done"
                      /\ rd'[r].css =
                            {<<f.selector, " { display: none !important; }\n">> :
                                f \in {g \in rd[r].snap.val.rules :
                                          /\ g.kind = "hide"
                                          /\ rd[r].url.wellformed
                                          /\ IsSuffix(g.target, rd[r].url.host)}}]_vars

(* get_cosmetic_css has returned the hiding rule of the engine for a page whose
   allowlist entry has expired *)
C17_Witness ==
    \E r \in Readers :
        /\ rd[r].pc = "done"
        /\ rd[r].op = "get_cosmetic_css"
        /\ rd[r].css = {<<".ad-banner", " { display: none !important; }\n">>}
        /\ ExpiredEntry(allowlist, rd[r].url.host, now)

(* C18: the read path has no side effects: a step of should_block_request,
   get_cosmetic_css (with is_exception) or get_exceptions leaves the engine in
   the store, the in-memory allowlist with its expired entries, the Safari
   rules holder and the three files as they were. *)
C18_ReadPathHasNoSideEffects ==
    [][(\E r \in Readers : rd'[r] # rd[r])
          => UNCHANGED <<engine, allowlist, safari_rules_json,
                         engineFile, safariFile, allowlistFile, published>>]_vars

(* A should_block_request call has looked up an expired entry, gone to the
   engine and returned, and the entry is still in the table *)
C18_Witness ==
    \E r \in Readers :
        /\ rd[r].pc = "done"
        /\ rd[r].op = "should_block_request"
        /\ rd[r].snap # None
        /\ HasDomain(rd[r].source_url, NEWS)
        /\ ExpiredEntry(allowlist, NEWS, now)

(* The place of a call's position in the order of its steps *)
PcRank(pc) ==
    CASE pc = "idle" -> 0
      [] pc = "allowlist" -> 1
      [] pc = "load" -> 2
      [] pc = "eval" -> 3
      [] pc = "done" -> 4

(* C19: the read path never waits on the write path: whatever step the
   pipeline runs are at, a should_block_request or get_cosmetic_css call that
   has started can take its next step, and each of its steps brings it nearer
   to its return, so it completes without a pipeline step. *)
C19_ReadPathNeverWaits ==
    /\ [](\A r \in Readers :
             rd[r].pc \in {"allowlist", "load", "eval"} => ENABLED QueryStep(r))
    /\ [][\A r \in Readers :
             (rd'[r] # rd[r] /\ rd[r].pc \in {"allowlist", "load", "eval"})
             => /\ PcRank(rd'[r].pc) > PcRank(rd[r].pc)
                /\ UNCHANGED run]_vars

(* A call has loaded the engine and returned while one run is between its
   cache write and its store and another is in its fetch loop *)
C19_Witness ==
    \E r \in Readers :
        /\ rd[r].pc = "done"
        /\ rd[r].snap # None
        /\ \E p \in Runs : run[p].pc = "store_engine"
        /\ \E p \in Runs : run[p].pc = "fetch"

----------------------------------------------------------------------------
(* Properties of the Safari rules document (checked under SpecMac) *)

(* The complete document of run p: its converted base rules followed by the
   exception rules it synthesized, one per whitelisted domain *)
WholeDocumentOf(p) ==
    SafariJson(IntoContentBlocking(run[p].filter_set)
               \o [k \in 1..Len(whitelisted_domains) |->
                      SafariRule("allow",
                                 UrlFilter("^https?://", Len(whitelisted_domains[k]) > 1,
                                           whitelisted_domains[k], "(/|$)"),
                                 gmail_domains)])

(* doc is the start-up value or the complete document of one run *)
WholeDocument(doc) ==
    \/ doc \in {SafariJson(<<>>), PriorSafari}
    \/ \E p \in Runs : run[p].pc \in {"store_safari", "done"} /\ doc = WholeDocumentOf(p)

(* C20: the Safari rules document is replaced only as a whole: the holder's
   value and every value get_safari_rules returned is the start-up value or
   the complete document of one run, that run's converted base rules with all
   of that run's exception rules. *)
C20_SafariRulesWholeDocument ==
    /\ WholeDocument(safari_rules_json)
    /\ \A r \in Readers : rd[r].rules.some => WholeDocument(rd[r].rules.val)
    /\ \A p \in Runs :
          run[p].pc \in {"store_safari", "done"} => run[p].final_json = WholeDocumentOf(p)

(* get_safari_rules returned the document of one run, and the holder has since
   been replaced by the document of the other *)
C20_Witness ==
    \E r \in Readers :
        /\ rd[r].rules.some
        /\ rd[r].rules.val \notin {SafariJson(<<>>), PriorSafari}
        /\ safari_rules_json \notin {SafariJson(<<>>), PriorSafari, rd[r].rules.val}

(* The last five rules of the document are the allow rules of google.com,
   gstatic.com, googleusercontent.com, googleapis.com and ggpht.com, each
   anchored to its domain with the optional-subdomain group and restricted to
   the gmail.com and mail.google.com contexts, and no rule before them is an
   allow rule *)
EndsWithExceptionRules(doc) ==
    LET n == Len(doc.rules)
        W == <<GOOGLE, GSTATIC, GOOGLEUSERCONTENT, GOOGLEAPIS, GGPHT>>
    IN  /\ n >= 5
        /\ \A k \in 1..5 :
              doc.rules[n - 5 + k] =
                 [action |-> "allow",
                  url_filter |-> [prefix |-> "^https?://", subdomains |-> TRUE,
                                  domain |-> W[k], tail |-> "(/|$)"],
                  if_domain |-> {<<"*mail", "google", "com">>, <<"*gmail", "com">>}]
        /\ \A k \in 1..(n - 5) : doc.rules[k].action \in {"block", "css-display-none"}

(* C21: every Safari rules document a pipeline run publishes (to the holder
   and to safari_rules.json) ends with exactly one synthesized allow rule per
   whitelisted domain, after all list-derived rules, each with the anchored
   optional-subdomain url-filter of its domain and the if-domain constraint of
   the gmail.com and mail.google.com contexts. *)
C21_DocumentEndsWithExceptionRules ==
    /\ \A p \in Runs :
          run[p].pc \in {"store_safari", "done"} => EndsWithExceptionRules(run[p].final_json)
    /\ safari_rules_json # SafariJson(<<>>) => EndsWithExceptionRules(safari_rules_json)
    /\ safariFile.tag = "safari" => EndsWithExceptionRules(safariFile)

(* A run has published a document of three list-derived rules and the five
   exception rules *)
C21_Witness ==
    \E p \in Runs :
        /\ run[p].pc = "done"
        /\ safari_rules_json = run[p].final_json
        /\ safariFile = run[p].final_json
        /\ Len(safari_rules_json.rules) = 8

----------------------------------------------------------------------------
(* Properties of failed disk writes (checked under SpecPersist) *)

(* C22: a failed disk write never undoes or prevents the in-memory change:
   whatever the write of adblock_engine.bin leaves in the file the run goes on
   to publish the engine it compiled, and whatever the write of
   adblock_allowlist.json leaves in the file the call returns with its insert
   or remove still in the table. *)
C22_FailedWriteKeepsMemory ==
    [][/\ \A p \in Runs :
             (run[p].pc = "write_engine" /\ run'[p] # run[p])
             => /\ run'[p] = [run[p] EXCEPT !.pc = "store_engine",
                                              !.engine_written = run'[p].engine_written]
                /\ engine' = engine
       /\ \A p \in Runs :
             (run[p].pc = "store_engine" /\ run'[p] # run[p])
             => /\ engine' = run[p].new_engine
                /\ run'[p].pc = "done"
       /\ \A w \in Writers :
             (wr[w].pc = "write" /\ wr'[w] # wr[w])
             => /\ wr'[w].pc = "idle"
                /\ allowlist' = allowlist
                /\ HoldsChange(allowlist', wr[w])]_vars

(* Both writes have failed: the engine a run compiled is in the store while
   adblock_engine.bin is cut short, and the table holds an entry while
   adblock_allowlist.json does not exist *)
C22_Witness ==
    /\ \E p \in Runs : run[p].pc = "done" /\ engine = run[p].new_engine
    /\ engineFile = Corrupt
    /\ NEWS \in DOMAIN allowlist
    /\ allowlistFile = Absent
    /\ \A w \in Writers : wr[w].pc = "idle"

----------------------------------------------------------------------------
(* Properties of the allowlist's keys (checked under SpecAllow) *)

(* The registrable domain of a host whose public suffix is one label: its
   last two labels *)
RegistrableDomain(host) ==
    IF Len(host) <= 2 THEN host ELSE SubSeq(host, Len(host) - 1, Len(host))

(* C23: allowlist entries are keyed and looked up by registrable domain: when
   the table holds an active entry made on a host with the same registrable
   domain as the initiator's host, should_block_request returns at its
   allowlist look-up. *)
C23_KeyedByRegistrableDomain ==
    [][\A r \in Readers, D \in DOMAIN allowlist :
          ( /\ ChecksAllowlist(r)
            /\ rd[r].op = "should_block_request"
            /\ rd[r].source_url.wellformed
            /\ rd[r].source_url.hostkind = "domain"
            /\ RegistrableDomain(rd[r].source_url.host) = RegistrableDomain(D)
            /\ ActiveEntry(allowlist, D, now) )
          => rd'[r].pc = "done"]_vars

----------------------------------------------------------------------------
(* Properties of set_site_exception (checked under SpecDurations) *)

(* Thread w makes its change to the table in this step *)
ChangesTable(w) == wr[w].pc = "idle" /\ wr'[w].pc = "save"

(* C24: set_site_exception maps "1hour" to Until(now + 3600), "24hours" to
   Until(now + 86400), "forever" to Forever and "off" to the removal of the
   domain's entry; the table changes in no other step, and
   adblock_allowlist.json changes only in the save of such a call, so a call
   with any other class or with a URL without a domain changes neither. *)
C24_DurationClassMapping ==
    [][/\ \A w \in Writers :
             ChangesTable(w)
             => LET D == wr'[w].domain
                    class == wr'[w].duration_type
                IN  /\ class \in {"1hour", "24hours", "forever", "off"}
                    /\ D \in {u.host : u \in {x \in ExceptionUrls : x.wellformed}}
                    /\ class = "1hour" => allowlist' = MapInsert(allowlist, D, Until(now + 3600))
                    /\ class = "24hours" => allowlist' = MapInsert(allowlist, D, Until(now + 86400))
                    /\ class = "forever" => allowlist' = MapInsert(allowlist, D, Forever)
                    /\ class = "off" => allowlist' = MapRemove(allowlist, D)
       /\ allowlist' # allowlist => \E w \in Writers : ChangesTable(w)
       /\ allowlistFile' # allowlistFile
             => \E w \in Writers :
                   /\ wr[w].pc = "write"
                   /\ wr[w].duration_type \in {"1hour", "24hours", "forever", "off"}
                   /\ wr'[w].pc = "idle"]_vars

(* A "24hours" call made one tick after start-up has put Until(now + 86400)
   in the table and is about to save it *)
C24_Witness ==
    \E w \in Writers :
        /\ wr[w].pc = "save"
        /\ wr[w].duration_type = "24hours"
        /\ now = StartTime + 3600
        /\ wr[w].domain \in DOMAIN allowlist
        /\ allowlist[wr[w].domain] = Until(StartTime + 3600 + 86400)

----------------------------------------------------------------------------
(* Properties of insert followed by remove (checked under SpecAllow) *)

(* What should_block_request returns for request q from the current table,
   clock and engine *)
ShouldBlockRequest(q) ==
    IF AllowlistBypass(allowlist, q[2], now)
    THEN FALSE
    ELSE BlockDecision(ArcSwapLoad(engine), q[1], q[2], q[3])

(* The requests from initiator domain D that the engine blocks *)
EngineBlocksFrom(D) ==
    {q \in Requests : HasDomain(q[2], D) /\ BlockDecision(engine, q[1], q[2], q[3])}

(* C25: for a request the engine blocks from initiator domain D,
   should_block_request returns true while D has no entry, false once
   add_exception(D, Forever) has made its insert, and true again once
   remove_exception(D) has made its removal; neither call changes the
   engine. *)
C25_InsertRemoveRoundTrip ==
    [][\A w \in Writers :
          ChangesTable(w)
          => /\ engine' = engine
             /\ \A q \in EngineBlocksFrom(wr'[w].domain) :
                   /\ wr'[w].domain \notin DOMAIN allowlist => ShouldBlockRequest(q)
                   /\ wr'[w].duration_type = "forever" => ~ShouldBlockRequest(q)'
                   /\ wr'[w].duration_type = "off" => ShouldBlockRequest(q)']_vars

(* The round trip on www.news.example: its Forever entry reached the file (no
   start-up file holds it), the removal has since taken it out of the table,
   and a call from that initiator has gone to the engine and returned true *)
C25_Witness ==
    \E r \in Readers, w \in Writers :
        /\ allowlistFile.tag = "allowlist"
        /\ WWW_NEWS \in DOMAIN allowlistFile.table
        /\ allowlistFile.table[WWW_NEWS] = Forever
        /\ WWW_NEWS \notin DOMAIN allowlist
        /\ wr[w].duration_type = "off" /\ wr[w].domain = WWW_NEWS
        /\ rd[r].pc = "done"
        /\ rd[r].op = "should_block_request"
        /\ HasDomain(rd[r].source_url, WWW_NEWS)
        /\ rd[r].snap # None
        /\ rd[r].blocked

----------------------------------------------------------------------------
(* Termination of the update pipeline (checked under SpecLive) *)

(* C26: every pipeline run terminates: a run started by spawn_update_thread
   eventually reaches the abort (no filters loaded) or the end of
   publication, whatever its fetches return, a source that does not respond
   included. *)
C26_EveryRunTerminates ==
    \A p \in Runs : (run[p].pc # "idle") ~> (run[p].pc \in {"aborted", "done"})

(* A run whose first source gave no response has fetched the second one and
   published *)
C26_Witness ==
    \E p \in Runs :
        /\ run[p].pc = "done"
        /\ run[p].fetched[1] = NetErr
        /\ run[p].fetched[2].ok
        /\ safari_rules_json = run[p].final_json

----------------------------------------------------------------------------
(* modules/tabs.rs: reorder_logic and the reorder_tabs command *)

MaxTabs == 3
MaxEvents == 2

(* Tab ids in the strip, and one id no tab has *)
TabIdPool == {"tab-1", "tab-2", "tab-3"}
UnknownId == "tab-9"

(* The sequences over S of length at most n *)
SeqsUpTo(S, n) == UNION {[1..k -> S] : k \in 0..n}

(* The orderings of a finite set *)
Orderings(S) ==
    {s \in [1..Cardinality(S) -> S] : \A i, j \in 1..Cardinality(S) : s[i] = s[j] => i = j}

(* The tab strips the user can have built: up to MaxTabs tabs, every id once *)
TabLists ==
    UNION {{[k \in 1..Len(ids) |-> MkTab(ids[k])] : ids \in Orderings(S)} :
             S \in {X \in SUBSET TabIdPool : Cardinality(X) <= MaxTabs}}

(* The new_order arguments the tab strip can send: complete or partial
   orders, with repeated ids, with an id no tab has, or empty *)
NewOrders == SeqsUpTo(TabIdPool \cup {UnknownId}, MaxTabs)

(* tabs.iter().map(|t| t.id.clone()).collect() *)
TabIds(ts) == [k \in 1..Len(ts) |-> ts[k].id]
IdSet(ts) == {ts[k].id : k \in 1..Len(ts)}

(* tabs.drain(..).map(|t| (t.id.clone(), t)).collect(): a later tab with the
   same id replaces an earlier one *)
TabMap(ts) ==
    [id \in IdSet(ts) |->
        ts[CHOOSE k \in 1..Len(ts) :
              ts[k].id = id /\ \A j \in 1..Len(ts) : ts[j].id = id => j <= k]]

(* for id in new_order { if let Some(tab) = tab_map.remove(id) { reordered.push(tab) } } *)
RECURSIVE Rebuild(_, _, _)
Rebuild(new_order, tab_map, reordered) ==
    IF new_order = <<>>
    THEN [reordered |-> reordered, tab_map |-> tab_map]
    ELSE IF Head(new_order) \in DOMAIN tab_map
         THEN Rebuild(Tail(new_order),
                      [id \in DOMAIN tab_map \ {Head(new_order)} |-> tab_map[id]],
                      Append(reordered, tab_map[Head(new_order)]))
         ELSE Rebuild(Tail(new_order), tab_map, reordered)

(* Variant of IntoValues: the tabs left in the map are not appended *)
IntoValuesDropped(tab_map) == {<<>>}

(* tab_map.into_values(): the values in the HashMap's iteration order, which
   is any order *)
IntoValues(tab_map) ==
    {[k \in 1..Len(ids) |-> tab_map[ids[k]]] : ids \in Orderings(DOMAIN tab_map)}

(* Variant of OrderChanged: the old order is compared with the order asked for *)
OrderChangedFromRequest(old_order, new_order, new_order_actual) == old_order # new_order

(* let changed = old_order != new_order_actual *)
OrderChanged(old_order, new_order, new_order_actual) == old_order # new_order_actual

(* Variant of reorder_logic: the tabs left in the map go in front *)
reorder_logic_rest_first(ts, new_order) ==
    IF ts = <<>> \/ new_order = <<>>
    THEN {[tabs |-> ts, changed |-> FALSE]}
    ELSE LET built == Rebuild(new_order, TabMap(ts), <<>>)
         IN  {[tabs |-> rest \o built.reordered,
               changed |-> OrderChanged(TabIds(ts), new_order, TabIds(rest \o built.reordered))] :
                 rest \in IntoValues(built.tab_map)}

(* reorder_logic: the lists it can leave in *tabs and the value it returns
   with each *)
reorder_logic(ts, new_order) ==
    IF ts = <<>> \/ new_order = <<>>
    THEN {[tabs |-> ts, changed |-> FALSE]}
    ELSE LET built == Rebuild(new_order, TabMap(ts), <<>>)
         IN  {[tabs |-> built.reordered \o rest,
               changed |-> OrderChanged(TabIds(ts), new_order, TabIds(built.reordered \o rest))] :
                 rest \in IntoValues(built.tab_map)}

(* reorder_tabs, the first block: lock state.tabs, reorder, unlock *)
ReorderTabs(t, new_order) ==
    /\ ui[t].pc = "idle"
    /\ Len(events) < MaxEvents
    /\ \E res \in reorder_logic(tabs, new_order) :
          /\ tabs' = res.tabs
          /\ ui' = [ui EXCEPT ![t] =
                       [pc |-> IF res.changed THEN "emit" ELSE "return",
                        op |-> "reorder_tabs",
                        new_order |-> new_order,
                        old_order |-> TabIds(tabs),
                        changed |-> res.changed]]
    /\ UNCHANGED <<active_tab_id, events>>
    /\ UNCHANGED <<closedVars, cmdVars, dropdownVars, adblockVars>>

(* reorder_tabs, if changed: lock state.tabs and state.active_tab_id and
   emit "update-tabs" *)
EmitUpdateTabs(t) ==
    /\ ui[t].pc = "emit"
    /\ events' = Append(events, [event |-> "update-tabs", tabs |-> tabs,
                                 activeTabId |-> active_tab_id])
    /\ ui' = [ui EXCEPT ![t].pc = "return"]
    /\ UNCHANGED <<tabs, active_tab_id>>
    /\ UNCHANGED <<closedVars, cmdVars, dropdownVars, adblockVars>>

(* reorder_tabs: Ok(()) *)
ReturnReorderTabs(t) ==
    /\ ui[t].pc = "return"
    /\ ui' = [ui EXCEPT ![t] = IdleTabCall]
    /\ UNCHANGED <<tabs, active_tab_id, events>>
    /\ UNCHANGED <<closedVars, cmdVars, dropdownVars, adblockVars>>

(* The window with any tab strip, its first tab active, no cache files *)
InitTabs ==
    \E ts \in TabLists :
        /\ NewAdBlockManager(Absent, Absent, Absent, FALSE)
        /\ TabStateIs(ts, IF ts = <<>> THEN None ELSE Some(ts[1].id))
        /\ ClosedStateIs(<<>>)
        /\ NewCmdState
        /\ NewDropdownState

NextTabs ==
    \E t \in TabThreads :
        \/ \E new_order \in NewOrders : ReorderTabs(t, new_order)
        \/ EmitUpdateTabs(t)
        \/ ReturnReorderTabs(t)

SpecTabs == InitTabs /\ [][NextTabs]_vars

----------------------------------------------------------------------------
(* Properties of reorder_logic and reorder_tabs (checked under SpecTabs) *)

(* Thread t runs reorder_logic in this step *)
Reorders(t) == ui[t].pc = "idle" /\ ui'[t].pc # "idle"

(* The ids of order that belong to S, each at its first occurrence *)
RECURSIVE FirstOccurrences(_, _)
FirstOccurrences(order, S) ==
    IF order = <<>> THEN <<>>
    ELSE IF Head(order) \in S
         THEN <<Head(order)>> \o FirstOccurrences(Tail(order), S \ {Head(order)})
         ELSE FirstOccurrences(Tail(order), S)

(* C27: reorder_logic never loses or duplicates a tab: whatever new_order is
   (complete, missing ids, unknown ids, repeated ids, empty), the tabs after
   the call are the tabs before it, each once, so the set of ids and the
   length are unchanged. *)
C27_ReorderKeepsEveryTab ==
    [][\A t \in TabThreads :
          Reorders(t)
          => /\ IdSet(tabs') = IdSet(tabs)
             /\ Len(tabs') = Len(tabs)
             /\ Range(tabs') = Range(tabs)]_vars

(* A call on three tabs with a new_order that repeats one id, names an id no
   tab has and misses two tabs has returned, and the three tabs are there *)
C27_Witness ==
    \E t \in TabThreads :
        /\ ui[t].pc \in {"emit", "return"}
        /\ ui[t].old_order = <<"tab-1", "tab-2", "tab-3">>
        /\ ui[t].new_order = <<"tab-3", "tab-9", "tab-3">>
        /\ TabIds(tabs) = <<"tab-3", "tab-2", "tab-1">>

(* C28: after reorder_logic with a non-empty new_order the tabs named in
   new_order come first, in the order of their first occurrence in
   new_order, and every tab not named comes after them. *)
C28_NamedTabsFirstInGivenOrder ==
    [][\A t \in TabThreads :
          (Reorders(t) /\ ui'[t].new_order # <<>>)
          => LET named == FirstOccurrences(ui'[t].new_order, IdSet(tabs))
             IN  /\ Len(named) <= Len(tabs')
                 /\ SubSeq(TabIds(tabs'), 1, Len(named)) = named
                 /\ \A k \in (Len(named) + 1)..Len(tabs') :
                       tabs'[k].id \notin Range(ui'[t].new_order)]_vars

(* A call that named the third and the first of three tabs, the third twice,
   has put them first in that order and the unnamed tab last *)
C28_Witness ==
    \E t \in TabThreads :
        /\ ui[t].pc \in {"emit", "return"}
        /\ ui[t].old_order = <<"tab-1", "tab-2", "tab-3">>
        /\ ui[t].new_order = <<"tab-3", "tab-1", "tab-3">>
        /\ TabIds(tabs) = <<"tab-3", "tab-1", "tab-2">>

(* C29: reorder_logic returns true iff the sequence of tab ids after the call
   differs from the one before it; with an empty tab list or an empty
   new_order it returns false and leaves the list untouched; reorder_tabs
   emits "update-tabs" only after a call that returned true. *)
C29_ChangedIffOrderDiffers ==
    [][/\ \A t \in TabThreads :
             Reorders(t)
             => /\ ui'[t].changed <=> (TabIds(tabs') # TabIds(tabs))
                /\ (tabs = <<>> \/ ui'[t].new_order = <<>>)
                      => (~ui'[t].changed /\ tabs' = tabs)
                /\ ui'[t].pc = IF ui'[t].changed THEN "emit" ELSE "return"
       /\ events' # events
             => \E t \in TabThreads :
                   /\ ui[t].pc = "emit"
                   /\ ui[t].changed
                   /\ events' = Append(events, [event |-> "update-tabs", tabs |-> tabs,
                                                activeTabId |-> active_tab_id])]_vars

(* After one call that changed the order and emitted, a call whose new_order
   names the tabs in the order they are in, with an id no tab has in front,
   has returned false and is about to return without emitting *)
C29_Witness ==
    \E t \in TabThreads :
        /\ Len(events) = 1
        /\ ui[t].pc = "return"
        /\ ~ui[t].changed
        /\ ui[t].new_order = <<"tab-9", "tab-2", "tab-1">>
        /\ ui[t].old_order = <<"tab-2", "tab-1">>
        /\ TabIds(tabs) = <<"tab-2", "tab-1">>

----------------------------------------------------------------------------
(* modules/closed_tabs.rs: archive_tab and pop_closed_tab *)

MAX_CLOSED_TABS == 25
MaxArchives == 4
MaxPops == 2

(* The numbers of tabs archived before the threads start: none, or two short
   of the limit *)
ArchivedBefore == {0, MAX_CLOSED_TABS - 2}

(* The tab handed to the n-th archive_tab call *)
ClosingTab(n) == MkTab(<<"tab", n>>)

(* The stack after n tabs were archived one after another *)
StackOf(n, time) == [k \in 1..n |-> ClosedTabFrom(ClosingTab(k), time)]

(* The archive_tab calls the threads have started *)
ArchiveCalls == archived - CHOOSE n \in ArchivedBefore :
                               n <= archived /\ \A x \in ArchivedBefore : x <= archived => x <= n

(* archive_tab up to the lock: let closed_tab = ClosedTab::from(tab) *)
ArchiveTab(c) ==
    /\ cl[c].pc = "idle"
    /\ ArchiveCalls < MaxArchives
    /\ archived' = archived + 1
    /\ cl' = [cl EXCEPT ![c] =
                 [IdleCloser EXCEPT
                     !.pc = "lock", !.op = "archive_tab",
                     !.closed_tab = Some(ClosedTabFrom(ClosingTab(archived + 1), now))]]
    /\ UNCHANGED <<closed_tabs, popped, evicted, history>>
    /\ UNCHANGED <<tabVars, cmdVars, dropdownVars, adblockVars>>

(* Variant of PushAndLimit: at the limit the newest entry is dropped *)
PushAndLimitDropNewest(closed, closed_tab) ==
    IF Len(closed) + 1 > MAX_CLOSED_TABS THEN closed ELSE Append(closed, closed_tab)

(* closed.push_back(closed_tab); if closed.len() > MAX_CLOSED_TABS { closed.pop_front(); } *)
PushAndLimit(closed, closed_tab) ==
    IF Len(Append(closed, closed_tab)) > MAX_CLOSED_TABS
    THEN Tail(Append(closed, closed_tab))
    ELSE Append(closed, closed_tab)

(* archive_tab under the lock of state.closed_tabs, to its return *)
PushClosedTab(c) ==
    /\ cl[c].pc = "lock"
    /\ cl[c].op = "archive_tab"
    /\ closed_tabs' = PushAndLimit(closed_tabs, cl[c].closed_tab.val)
    /\ evicted' = IF Len(closed_tabs) + 1 > MAX_CLOSED_TABS THEN evicted + 1 ELSE evicted
    /\ history' = history \o <<[ev |-> "push", id |-> cl[c].closed_tab.val.id]>>
                     \o [k \in 1..(Len(closed_tabs) + 1 - Len(closed_tabs')) |->
                            [ev |-> "evict", id |-> closed_tabs[k].id]]
    /\ cl' = [cl EXCEPT ![c] = IdleCloser]
    /\ UNCHANGED <<archived, popped>>
    /\ UNCHANGED <<tabVars, cmdVars, dropdownVars, adblockVars>>

(* closed_tab_count: closed.len() under the lock *)
closed_tab_count == Len(closed_tabs)

(* Variant of PopClosedTab: the entry taken is the front one *)
PopClosedTabFront(c) ==
    /\ cl[c].pc = "idle"
    /\ popped < MaxPops
    /\ IF closed_tabs = <<>>
       THEN /\ cl' = [cl EXCEPT ![c] = [IdleCloser EXCEPT
                          !.pc = "return", !.op = "pop_closed_tab", !.result = None]]
            /\ UNCHANGED <<closed_tabs, popped, history>>
       ELSE /\ cl' = [cl EXCEPT ![c] = [IdleCloser EXCEPT
                          !.pc = "return", !.op = "pop_closed_tab",
                          !.result = Some(Head(closed_tabs))]]
            /\ closed_tabs' = Tail(closed_tabs)
            /\ popped' = popped + 1
            /\ history' = Append(history, [ev |-> "pop", id |-> cl'[c].result.val.id])
    /\ UNCHANGED <<archived, evicted>>
    /\ UNCHANGED <<tabVars, cmdVars, dropdownVars, adblockVars>>

(* pop_closed_tab: lock, closed.pop_back(), unlock *)
PopClosedTab(c) ==
    /\ cl[c].pc = "idle"
    /\ popped < MaxPops
    /\ IF closed_tabs = <<>>
       THEN /\ cl' = [cl EXCEPT ![c] = [IdleCloser EXCEPT
                          !.pc = "return", !.op = "pop_closed_tab", !.result = None]]
            /\ UNCHANGED <<closed_tabs, popped, history>>
       ELSE /\ cl' = [cl EXCEPT ![c] = [IdleCloser EXCEPT
                          !.pc = "return", !.op = "pop_closed_tab",
                          !.result = Some(closed_tabs[Len(closed_tabs)])]]
            /\ closed_tabs' = SubSeq(closed_tabs, 1, Len(closed_tabs) - 1)
            /\ popped' = popped + 1
            /\ history' = Append(history, [ev |-> "pop", id |-> cl'[c].result.val.id])
    /\ UNCHANGED <<archived, evicted>>
    /\ UNCHANGED <<tabVars, cmdVars, dropdownVars, adblockVars>>

(* pop_closed_tab returns its Option<ClosedTab> *)
ReturnClosedTab(c) ==
    /\ cl[c].pc = "return"
    /\ cl' = [cl EXCEPT ![c] = IdleCloser]
    /\ UNCHANGED <<closed_tabs, archived, popped, evicted, history>>
    /\ UNCHANGED <<tabVars, cmdVars, dropdownVars, adblockVars>>

(* Threads archiving and restoring closed tabs, from the empty stack and
   from a stack two short of the limit *)
InitClosed ==
    \E n \in ArchivedBefore :
        /\ NewAdBlockManager(Absent, Absent, Absent, FALSE)
        /\ TabStateIs(<<>>, None)
        /\ ClosedStateIs(StackOf(n, StartTime))
        /\ NewCmdState
        /\ NewDropdownState

NextClosed ==
    \E c \in Closers :
        \/ ArchiveTab(c)
        \/ PushClosedTab(c)
        \/ PopClosedTab(c)
        \/ ReturnClosedTab(c)

SpecClosed == InitClosed /\ [][NextClosed]_vars

----------------------------------------------------------------------------
(* Properties of the closed-tabs stack (checked under SpecClosed) *)

(* Thread c pushes its entry in this step *)
Archives(c) == cl[c].pc = "lock" /\ cl'[c].pc = "idle"

(* C30: the closed-tabs stack never holds more than 25 entries, whatever the
   threads archive and pop; an archive that finds 25 entries drops exactly the
   oldest one (the front) and keeps the rest and the new entry, and an
   archive that finds fewer drops nothing. *)
C30_AtMost25OldestEvicted ==
    /\ [](Len(closed_tabs) <= 25)
    /\ [][\A c \in Closers :
             Archives(c)
             => /\ Len(closed_tabs) = 25
                      => closed_tabs' = Append(Tail(closed_tabs), cl[c].closed_tab.val)
                /\ Len(closed_tabs) < 25
                      => closed_tabs' = Append(closed_tabs, cl[c].closed_tab.val)]_vars

(* 26 tabs have been archived and none restored: the stack holds 25, the
   first one archived is gone and the 26th is on top *)
C30_Witness ==
    /\ archived = 26
    /\ popped = 0
    /\ \A c \in Closers : cl[c].pc = "idle"
    /\ Len(closed_tabs) = 25
    /\ evicted = 1
    /\ \A k \in 1..25 : closed_tabs[k].id # <<"tab", 1>>
    /\ closed_tabs[25].id = <<"tab", 26>>

(* Thread c runs pop_closed_tab in this step *)
Pops(c) == cl[c].pc = "idle" /\ cl'[c].op = "pop_closed_tab"

(* The ids archived so far that were neither popped nor evicted since *)
LiveIds ==
    {history[k].id : k \in {j \in 1..Len(history) : history[j].ev = "push"}}
    \ {history[k].id : k \in {j \in 1..Len(history) : history[j].ev # "push"}}

(* The id archived last among the live ones *)
MostRecentLive ==
    history[CHOOSE k \in 1..Len(history) :
               /\ history[k].ev = "push"
               /\ history[k].id \in LiveIds
               /\ \A j \in (k + 1)..Len(history) :
                     history[j].ev = "push" => history[j].id \notin LiveIds].id

(* The archive_tab calls that have not pushed their entry yet *)
PendingArchives == Cardinality({c \in Closers : cl[c].pc = "lock"})

(* C31: pop_closed_tab is LIFO: it returns and removes the entry archived
   last among those neither popped nor evicted, and returns None exactly when
   the stack is empty; closed_tab_count is always the number of archives
   minus the pops that returned a tab minus the evictions. *)
C31_PopIsLifoAndCountAddsUp ==
    /\ [](closed_tab_count = (archived - PendingArchives) - popped - evicted)
    /\ []({closed_tabs[k].id : k \in 1..Len(closed_tabs)} = LiveIds)
    /\ [][\A c \in Closers :
             Pops(c)
             => /\ (cl'[c].result = None) <=> (closed_tabs = <<>>)
                /\ closed_tabs = <<>> => closed_tabs' = closed_tabs
                /\ closed_tabs # <<>>
                      => /\ cl'[c].result.val.id = MostRecentLive
                         /\ cl'[c].result.val \in {closed_tabs[k] : k \in 1..Len(closed_tabs)}
                         /\ closed_tabs' = SelectSeq(closed_tabs,
                                              LAMBDA e : e.id # MostRecentLive)]_vars

(* Two tabs were archived and one popped: the call holds the second one,
   the first is still on the stack *)
C31_Witness ==
    \E c \in Closers :
        /\ cl[c].pc = "return"
        /\ cl[c].result = Some(ClosedTabFrom(ClosingTab(2), StartTime))
        /\ closed_tabs = <<ClosedTabFrom(ClosingTab(1), StartTime)>>
        /\ history = << [ev |-> "push", id |-> <<"tab", 1>>],
                        [ev |-> "push", id |-> <<"tab", 2>>],
                        [ev |-> "pop", id |-> <<"tab", 2>>] >>
        /\ closed_tab_count = 1

----------------------------------------------------------------------------
(* Properties of the two publications of one run (checked under SpecMac) *)

(* Run p ends in this step with both pipelines done *)
EndsPublished(p) == run[p].pc = "store_safari" /\ run'[p].pc = "done"

(* C32: when a run that compiled an engine ends on macOS, the engine in the
   store, the Safari document in the holder and the one in safari_rules.json
   all come from the filter set of one and the same run. *)
C32_EngineAndSafariFromSameRun ==
    [][\A p \in Runs :
          EndsPublished(p)
          => \E q \in Runs :
                /\ Compiled(q)
                /\ engine' = run'[q].new_engine
                /\ safari_rules_json' = FinalSafariJson(run'[q].filter_set)
                /\ safariFile' = FinalSafariJson(run'[q].filter_set)]_vars


----------------------------------------------------------------------------
(* Properties of the engine cache against the store (checked under Spec) *)

(* No update_rules thread is between its spawn and its end *)
Quiescent == \A p \in Runs : ~InFlight(p)

(* Every write of adblock_engine.bin so far returned Ok *)
NoWriteError == \A p \in Runs : run[p].engine_written

(* C33: whenever no run is in progress, no write failed and some run has
   published, adblock_engine.bin holds the serialization of the engine in the
   store, however many runs were triggered and however they overlapped. *)
C33_CacheFileMatchesStore ==
    (Quiescent /\ NoWriteError /\ \E p \in Runs : run[p].pc = "done")
    => engineFile = Serialize(engine)

----------------------------------------------------------------------------
(* Properties of the allowlist as a map (checked under SpecDurations) *)

(* C34: the allowlist has one entry per domain and the latest add_exception
   wins: after an insert for domain D the entry of D is the new expiry,
   whether or not D had an entry, and every other entry is as before; a
   removal takes away the entry of D only, and when D had no entry the table
   is unchanged. *)
C34_OneEntryPerDomainLatestWins ==
    [][\A w \in Writers :
          ChangesTable(w)
          => LET D == wr'[w].domain
                 class == wr'[w].duration_type
                 secs == IF class = "1hour" THEN 3600 ELSE 86400
             IN  /\ \A x \in (DOMAIN allowlist) \ {D} :
                       x \in DOMAIN allowlist' /\ allowlist'[x] = allowlist[x]
                 /\ DOMAIN allowlist' \subseteq (DOMAIN allowlist) \cup {D}
                 /\ class \in {"1hour", "24hours"}
                       => D \in DOMAIN allowlist' /\ allowlist'[D] = Until(now + secs)
                 /\ class = "forever"
                       => D \in DOMAIN allowlist' /\ allowlist'[D] = Forever
                 /\ class = "off" => D \notin DOMAIN allowlist'
                 /\ (class = "off" /\ D \notin DOMAIN allowlist) => allowlist' = allowlist]_vars

(* A "1hour" call for a domain whose entry was Forever (the file still holds
   it) has made the entry time-bounded and is about to save *)
C34_Witness ==
    \E w \in Writers :
        /\ wr[w].pc = "save"
        /\ wr[w].duration_type = "1hour"
        /\ wr[w].domain = NEWS
        /\ allowlistFile = AllowlistJson([x \in {NEWS} |-> Forever])
        /\ allowlist = [x \in {NEWS} |-> Until(now + 3600)]

----------------------------------------------------------------------------
(* Properties of the allowlist across a restart (checked under SpecRestart) *)

(* C35: the allowlist survives a restart: with no call in flight the
   in-memory table is the one the last completed add_exception or
   remove_exception left, and the table AdBlockManager::new loads from
   adblock_allowlist.json at the next start is that table (same domains,
   same expiries). *)
C35_AllowlistSurvivesRestart ==
    [][ExitAndRestart => allowlist' = allowlist]_vars

----------------------------------------------------------------------------
(* Properties of reorder_logic for the tabs new_order leaves out (checked
   under SpecTabs) *)

(* The tabs of ts whose id is not in the set named, in their order in ts *)
Omitted(ts, named) == SelectSeq(ts, LAMBDA x : x.id \notin named)

(* The sequence p is the beginning of the sequence s *)
IsPrefix(p, s) == Len(p) <= Len(s) /\ \A k \in 1..Len(p) : p[k] = s[k]

(* C39: the tabs new_order does not name come after the named ones in the
   relative order they had, so the result is determined by the arguments, and
   a new_order that lists a prefix of the current order returns false and
   leaves the order as it was. *)
C39_OmittedTabsKeepOrder ==
    [][\A t \in TabThreads :
          Reorders(t)
          => LET new_order == ui'[t].new_order
             IN  /\ Omitted(tabs', Range(new_order)) = Omitted(tabs, Range(new_order))
                 /\ IsPrefix(new_order, TabIds(tabs))
                       => tabs' = tabs /\ ~ui'[t].changed]_vars


----------------------------------------------------------------------------
(* The suggestions dropdown: update_dropdown and dropdown_ready (main.rs) *)

MaxDropdownEvents == 2

(* DropdownPayload { query, results, selected_index }: two queries, with and
   without results *)
DropdownPayloads == {[query |-> q, results |-> n] : q \in {"a", "ab"}, n \in {0, 1}}

(* A thread in dropdown_ready holds the dropdown_ready mutex up to its return *)
ReadyLockHeld == \E t \in DropdownThreads : dd[t].op = "dropdown_ready"

(* update_dropdown, up to `let payload = ...`: the flag is read under its
   mutex and the mutex released *)
CallUpdateDropdown(t, payload) ==
    /\ dd[t].pc = "idle"
    /\ Len(dropdown_events) < MaxDropdownEvents
    /\ ~ReadyLockHeld
    /\ dd' = [dd EXCEPT ![t] = [pc |-> "decide", op |-> "update_dropdown",
                                is_ready |-> dropdown_ready, payload |-> Some(payload)]]
    /\ UNCHANGED <<dropdown_ready, pending_payload, dropdown_events>>
    /\ UNCHANGED <<tabVars, closedVars, cmdVars, adblockVars>>

(* update_dropdown, the rest: not ready: *pending = Some(payload), return;
   ready: hide the window when there are no results, else emit the payload
   and show it *)
QueueOrEmit(t) ==
    /\ dd[t].pc = "decide"
    /\ IF ~dd[t].is_ready
       THEN /\ pending_payload' = dd[t].payload
            /\ UNCHANGED dropdown_events
       ELSE /\ dropdown_events' =
                 Append(dropdown_events,
                        IF dd[t].payload.val.results = 0
                        THEN [event |-> "hide", payload |-> None]
                        ELSE [event |-> "update-dropdown", payload |-> dd[t].payload])
            /\ UNCHANGED pending_payload
    /\ dd' = [dd EXCEPT ![t] = IdleDropdownCall]
    /\ UNCHANGED dropdown_ready
    /\ UNCHANGED <<tabVars, closedVars, cmdVars, adblockVars>>

(* dropdown_ready, the first half: lock dropdown_ready, *ready = true *)
SetReady(t) ==
    /\ dd[t].pc = "idle"
    /\ Len(dropdown_events) < MaxDropdownEvents
    /\ ~ReadyLockHeld
    /\ dropdown_ready' = TRUE
    /\ dd' = [dd EXCEPT ![t] = [pc |-> "take", op |-> "dropdown_ready",
                                is_ready |-> TRUE, payload |-> None]]
    /\ UNCHANGED <<pending_payload, dropdown_events>>
    /\ UNCHANGED <<tabVars, closedVars, cmdVars, adblockVars>>

(* dropdown_ready, the second half: lock pending_payload, pending.take(),
   emit what was there and show the window; both mutexes released *)
TakePending(t) ==
    /\ dd[t].pc = "take"
    /\ pending_payload' = None
    /\ dropdown_events' =
          IF pending_payload.some
          THEN Append(dropdown_events, [event |-> "update-dropdown", payload |-> pending_payload])
          ELSE dropdown_events
    /\ dd' = [dd EXCEPT ![t] = IdleDropdownCall]
    /\ UNCHANGED dropdown_ready
    /\ UNCHANGED <<tabVars, closedVars, cmdVars, adblockVars>>

(* The window after set-up, with the dropdown page not loaded yet *)
InitDropdown == New(Absent, Absent, Absent, FALSE)

NextDropdown ==
    \E t \in DropdownThreads :
        \/ \E payload \in DropdownPayloads : CallUpdateDropdown(t, payload)
        \/ QueueOrEmit(t)
        \/ SetReady(t)
        \/ TakePending(t)

SpecDropdown == InitDropdown /\ [][NextDropdown]_vars

----------------------------------------------------------------------------
(* Properties of the readiness hand-off (checked under SpecDropdown) *)

(* C40: no payload is lost across the hand-off: once dropdown_ready has run
   and no call of update_dropdown or dropdown_ready is in flight, no payload
   is left waiting in pending_payload (what was queued has been emitted to
   the dropdown window). *)
C40_NoPayloadLeftAfterReady ==
    (dropdown_ready /\ \A t \in DropdownThreads : dd[t].pc = "idle")
    => pending_payload = None


----------------------------------------------------------------------------
(* The tab commands and their two mutexes: create_tab, switch_tab, close_tab,
   navigate, emit_tabs_update (main.rs) and reorder_tabs (modules/tabs.rs) *)

MaxCreates == 1
MaxCmdEvents == 2

(* generate_tab_id(): the ids of the tabs created in this session *)
NewTabIds == <<"tab-4", "tab-5", "tab-6">>

(* The new_order arguments of this session *)
DragOrders == {<<"tab-2", "tab-1">>}

(* The thread of the sequential runs *)
CmdMain == {"a1"}

(* The commands in flight that may still push a tab *)
Creators == {u \in CmdThreads : cmd[u].op \in {"create_tab", "close_tab"}}

StartCmd(t, op, tab_id, new_order, inner, pc) ==
    /\ cmd[t].pc = "idle"
    /\ Len(events) < MaxCmdEvents
    /\ cmd' = [cmd EXCEPT ![t] =
                  [IdleCmd EXCEPT !.pc = pc, !.op = op, !.tab_id = tab_id,
                                  !.new_order = new_order, !.inner = inner,
                                  !.sw_tab_id = tab_id,
                                  !.at_call = [tabs |-> tabs, active_tab_id |-> active_tab_id]]]
    /\ UNCHANGED <<tabs, active_tab_id, events, ui, tabs_mutex, active_mutex, created>>
    /\ UNCHANGED <<closedVars, dropdownVars, adblockVars>>

(* The commands as the frontend invokes them *)
CallSwitchTab(t, tab_id) ==
    StartCmd(t, "switch_tab", tab_id, <<>>, "switch_tab_logic", "sw_lock_active")

CallCreateTab(t) ==
    /\ created + Cardinality(Creators) < MaxCreates
    /\ StartCmd(t, "create_tab", "", <<>>, "create_tab_with_url", "create")

CallCloseTab(t, tab_id) ==
    /\ created + Cardinality(Creators) < MaxCreates
    /\ StartCmd(t, "close_tab", tab_id, <<>>, "none", "cl_lock_tabs")

CallNavigate(t) == StartCmd(t, "navigate", "", <<>>, "none", "nav_lock_active")

CallReorderTabs(t, new_order) ==
    StartCmd(t, "reorder_tabs", "", new_order, "none", "ro_lock_tabs")

CallEmitTabsUpdate(t) ==
    StartCmd(t, "emit_tabs_update", "", <<>>, "none", "emit_lock_tabs")

(* Where a command goes when the switch_tab_logic it is in returns Err:
   switch_tab and create_tab pass the error on, close_tab_logic passes on the
   error of its own call (`?`) and drops that of create_tab_with_url
   (`let _ =`) and goes on to emit_tabs_update *)
AfterSwitchErr(c) ==
    IF c.op = "close_tab" /\ c.inner = "create_tab_with_url"
    THEN [c EXCEPT !.pc = "emit_lock_tabs", !.inner = "none"]
    ELSE [c EXCEPT !.pc = "return", !.result = "Err"]

(* Where a command goes when the switch_tab_logic it is in returns Ok *)
AfterSwitchOk(c) ==
    IF c.op = "close_tab"
    THEN [c EXCEPT !.pc = "emit_lock_tabs", !.inner = "none"]
    ELSE [c EXCEPT !.pc = "return", !.result = "Ok"]

(* create_tab_with_url, up to the webview: the main window is gone or
   add_child fails, and the function returns Err before it touches the state *)
CreateFails(t) ==
    /\ cmd[t].pc = "create"
    /\ cmd' = [cmd EXCEPT ![t] =
                  IF cmd[t].op = "close_tab"
                  THEN [cmd[t] EXCEPT !.pc = "emit_lock_tabs", !.inner = "none"]
                  ELSE [cmd[t] EXCEPT !.pc = "return", !.result = "Err"]]
    /\ UNCHANGED <<tabs, active_tab_id, events, ui, tabs_mutex, active_mutex, created>>
    /\ UNCHANGED <<closedVars, dropdownVars, adblockVars>>

(* create_tab_with_url, 4. Update State: lock tabs, push the new tab, unlock;
   then switch_tab_logic(tab_id) *)
PushNewTab(t) ==
    /\ cmd[t].pc = "create"
    /\ tabs_mutex = None
    /\ tabs' = Append(tabs, MkTab(NewTabIds[created + 1]))
    /\ created' = created + 1
    /\ cmd' = [cmd EXCEPT ![t].pc = "sw_lock_active",
                          ![t].sw_tab_id = NewTabIds[created + 1]]
    /\ UNCHANGED <<active_tab_id, events, ui, tabs_mutex, active_mutex>>
    /\ UNCHANGED <<closedVars, dropdownVars, adblockVars>>

(* switch_tab_logic, 2. State Update: lock active_tab_id, keep the old id,
   *active = Some(tab_id) *)
SwitchLockActive(t) ==
    /\ cmd[t].pc = "sw_lock_active"
    /\ active_mutex = None
    /\ active_mutex' = Some(t)
    /\ active_tab_id' = Some(cmd[t].sw_tab_id)
    /\ cmd' = [cmd EXCEPT ![t].pc = "sw_lock_tabs",
                          ![t].old_active_id =
                              IF active_tab_id.some THEN active_tab_id.val ELSE ""]
    /\ UNCHANGED <<tabs, events, ui, tabs_mutex, created>>
    /\ UNCHANGED <<closedVars, dropdownVars, adblockVars>>

(* switch_tab_logic, still holding active_tab_id: lock tabs, look the tab up,
   unlock both; Err("Tab not found") when target_label is empty *)
SwitchLockTabs(t) ==
    /\ cmd[t].pc = "sw_lock_tabs"
    /\ tabs_mutex = None
    /\ active_mutex' = None
    /\ LET found == cmd[t].sw_tab_id \in IdSet(tabs)
           c == [cmd[t] EXCEPT !.found = found]
       IN  cmd' = [cmd EXCEPT ![t] =
                      IF ~found THEN AfterSwitchErr(c)
                      ELSE IF c.old_active_id # "" THEN [c EXCEPT !.pc = "sw_old_label"]
                      ELSE [c EXCEPT !.pc = "emit_lock_tabs"]]
    /\ UNCHANGED <<tabs, active_tab_id, events, ui, tabs_mutex, created>>
    /\ UNCHANGED <<closedVars, dropdownVars, adblockVars>>

(* switch_tab_logic, 3. Hide old: lock tabs, read the old tab's label, unlock *)
SwitchOldLabel(t) ==
    /\ cmd[t].pc = "sw_old_label"
    /\ tabs_mutex = None
    /\ cmd' = [cmd EXCEPT ![t].pc = "emit_lock_tabs"]
    /\ UNCHANGED <<tabs, active_tab_id, events, ui, tabs_mutex, active_mutex, created>>
    /\ UNCHANGED <<closedVars, dropdownVars, adblockVars>>

(* emit_tabs_update: let tabs = state.tabs.lock() *)
EmitLockTabs(t) ==
    /\ cmd[t].pc = "emit_lock_tabs"
    /\ tabs_mutex = None
    /\ tabs_mutex' = Some(t)
    /\ cmd' = [cmd EXCEPT ![t].pc = "emit_lock_active"]
    /\ UNCHANGED <<tabs, active_tab_id, events, ui, active_mutex, created>>
    /\ UNCHANGED <<closedVars, dropdownVars, adblockVars>>

(* emit_tabs_update, still holding tabs: lock active_tab_id, clone it, emit
   "update-tabs", unlock; in switch_tab_logic "url-changed" follows and the
   function returns Ok *)
EmitLockActive(t) ==
    /\ cmd[t].pc = "emit_lock_active"
    /\ active_mutex = None
    /\ tabs_mutex' = None
    /\ LET update == [event |-> "update-tabs", tabs |-> tabs, activeTabId |-> active_tab_id]
           url == [event |-> "url-changed", tabs |-> <<>>, activeTabId |-> None]
       IN  events' = IF cmd[t].inner = "none"
                     THEN Append(events, update)
                     ELSE Append(Append(events, update), url)
    /\ cmd' = [cmd EXCEPT ![t] =
                  IF cmd[t].inner = "none"
                  THEN [cmd[t] EXCEPT !.pc = "return", !.result = "Ok"]
                  ELSE AfterSwitchOk(cmd[t])]
    /\ UNCHANGED <<tabs, active_tab_id, ui, active_mutex, created>>
    /\ UNCHANGED <<closedVars, dropdownVars, adblockVars>>

(* tabs.remove(index) *)
RemoveAt(ts, index) == [k \in 1..(Len(ts) - 1) |-> IF k < index THEN ts[k] ELSE ts[k + 1]]

(* tabs.iter().position(|t| t.id == tab_id), counted from 1; 0 for None *)
Position(ts, tab_id) ==
    IF tab_id \in IdSet(ts) THEN CHOOSE k \in 1..Len(ts) : ts[k].id = tab_id ELSE 0

(* close_tab_logic: lock tabs; when the tab is there, remove it and go on to
   lock active_tab_id; when it is not, unlock *)
CloseLockTabs(t) ==
    /\ cmd[t].pc = "cl_lock_tabs"
    /\ tabs_mutex = None
    /\ LET index == Position(tabs, cmd[t].tab_id)
       IN  IF index # 0
           THEN /\ tabs' = RemoveAt(tabs, index)
                /\ tabs_mutex' = Some(t)
                /\ cmd' = [cmd EXCEPT ![t].pc = "cl_lock_active", ![t].index = index,
                                      ![t].found = TRUE]
           ELSE /\ cmd' = [cmd EXCEPT ![t].pc = "emit_lock_tabs"]
                /\ UNCHANGED <<tabs, tabs_mutex>>
    /\ UNCHANGED <<active_tab_id, events, ui, active_mutex, created>>
    /\ UNCHANGED <<closedVars, dropdownVars, adblockVars>>

(* The tab to activate after tabs.remove(index): the one now at index (the
   right neighbour), else the one before it, else none *)
NextActive(ts, index) ==
    IF index <= Len(ts) THEN Some(ts[index].id)
    ELSE IF ts # <<>> THEN Some(ts[index - 1].id)
    ELSE None

(* close_tab_logic, still holding tabs: lock active_tab_id; when the closed
   tab was the active one pick the next; unlock both. Then: the next tab is
   switched to, or with no tab left a new one is created, or neither *)
CloseLockActive(t) ==
    /\ cmd[t].pc = "cl_lock_active"
    /\ active_mutex = None
    /\ tabs_mutex' = None
    /\ LET was_active == active_tab_id = Some(cmd[t].tab_id)
           next_tab_id == IF was_active THEN NextActive(tabs, cmd[t].index) ELSE None
           c == [cmd[t] EXCEPT !.was_active = was_active, !.next_tab_id = next_tab_id]
       IN  cmd' = [cmd EXCEPT ![t] =
                      IF was_active /\ next_tab_id.some
                      THEN [c EXCEPT !.pc = "sw_lock_active", !.inner = "switch_tab_logic",
                                     !.sw_tab_id = next_tab_id.val]
                      ELSE IF was_active
                      THEN [c EXCEPT !.pc = "create", !.inner = "create_tab_with_url"]
                      ELSE [c EXCEPT !.pc = "emit_lock_tabs"]]
    /\ UNCHANGED <<tabs, active_tab_id, events, ui, active_mutex, created>>
    /\ UNCHANGED <<closedVars, dropdownVars, adblockVars>>

(* navigate: let active = state.active_tab_id.lock() *)
NavLockActive(t) ==
    /\ cmd[t].pc = "nav_lock_active"
    /\ active_mutex = None
    /\ active_mutex' = Some(t)
    /\ cmd' = [cmd EXCEPT ![t].pc = "nav_lock_tabs"]
    /\ UNCHANGED <<tabs, active_tab_id, events, ui, tabs_mutex, created>>
    /\ UNCHANGED <<closedVars, dropdownVars, adblockVars>>

(* navigate, still holding active_tab_id: lock tabs, find the active tab's
   label, unlock both; the page is then told to load the URL *)
NavLockTabs(t) ==
    /\ cmd[t].pc = "nav_lock_tabs"
    /\ tabs_mutex = None
    /\ active_mutex' = None
    /\ cmd' = [cmd EXCEPT ![t].pc = "return", ![t].result = "Ok",
                          ![t].found = active_tab_id.some /\ active_tab_id.val \in IdSet(tabs)]
    /\ UNCHANGED <<tabs, active_tab_id, events, ui, tabs_mutex, created>>
    /\ UNCHANGED <<closedVars, dropdownVars, adblockVars>>

(* reorder_tabs, the first block: lock tabs, reorder_logic, unlock; the emit
   that follows when the order changed takes the locks as emit_tabs_update does *)
ReorderLockTabs(t) ==
    /\ cmd[t].pc = "ro_lock_tabs"
    /\ tabs_mutex = None
    /\ \E res \in reorder_logic(tabs, cmd[t].new_order) :
          /\ tabs' = res.tabs
          /\ cmd' = [cmd EXCEPT ![t] =
                        IF res.changed
                        THEN [cmd[t] EXCEPT !.pc = "emit_lock_tabs"]
                        ELSE [cmd[t] EXCEPT !.pc = "return", !.result = "Ok"]]
    /\ UNCHANGED <<active_tab_id, events, ui, tabs_mutex, active_mutex, created>>
    /\ UNCHANGED <<closedVars, dropdownVars, adblockVars>>

(* The command returns to the frontend *)
ReturnCmd(t) ==
    /\ cmd[t].pc = "return"
    /\ cmd' = [cmd EXCEPT ![t] = IdleCmd]
    /\ UNCHANGED <<tabs, active_tab_id, events, ui, tabs_mutex, active_mutex, created>>
    /\ UNCHANGED <<closedVars, dropdownVars, adblockVars>>

(* The strips of up to MaxTabs tabs with any of the tabs active *)
InitCmds ==
    \E n \in 0..MaxTabs :
        LET ts == [k \in 1..n |-> MkTab(<<"tab-1", "tab-2", "tab-3">>[k])]
        IN  \E active \in (IF n = 0 THEN {None} ELSE {Some(ts[k].id) : k \in 1..n}) :
               /\ NewAdBlockManager(Absent, Absent, Absent, FALSE)
               /\ TabStateIs(ts, active)
               /\ ClosedStateIs(<<>>)
               /\ NewCmdState
               /\ NewDropdownState

CmdStep(t) ==
    \/ \E tab_id \in IdSet(tabs) \cup {UnknownId} :
          \/ CallSwitchTab(t, tab_id)
          \/ CallCloseTab(t, tab_id)
    \/ CallCreateTab(t)
    \/ CallNavigate(t)
    \/ \E new_order \in DragOrders : CallReorderTabs(t, new_order)
    \/ CallEmitTabsUpdate(t)
    \/ CreateFails(t)
    \/ PushNewTab(t)
    \/ SwitchLockActive(t)
    \/ SwitchLockTabs(t)
    \/ SwitchOldLabel(t)
    \/ EmitLockTabs(t)
    \/ EmitLockActive(t)
    \/ CloseLockTabs(t)
    \/ CloseLockActive(t)
    \/ NavLockActive(t)
    \/ NavLockTabs(t)
    \/ ReorderLockTabs(t)
    \/ ReturnCmd(t)

(* The commands one at a time *)
NextCmdSeq == \E t \in CmdMain : CmdStep(t)

SpecCmdSeq == InitCmds /\ [][NextCmdSeq]_vars

(* The commands on two threads *)
NextCmds == \E t \in CmdThreads : CmdStep(t)

SpecCmds == InitCmds /\ [][NextCmds]_vars

----------------------------------------------------------------------------
(* Properties of the tab commands run one at a time (checked under SpecCmdSeq) *)

(* C36: after any sequence of create_tab, switch_tab and close_tab commands
   (none in flight), when the strip is not empty active_tab_id names one of
   its tabs; so a switch_tab to an id no tab has, which returns "Tab not
   found", has left active_tab_id as it was. *)
C36_ActiveTabIsInList ==
    ((\A t \in CmdThreads : cmd[t].pc = "idle") /\ tabs # <<>>)
    => active_tab_id.some /\ active_tab_id.val \in IdSet(tabs)


(* Thread t is about to return from close_tab *)
ClosedBy(t) == cmd[t].pc = "return" /\ cmd[t].op = "close_tab"

(* C38: when close_tab returns: if the tab closed was the active one, the
   active tab is its right neighbour in the strip as it was, else its left
   neighbour, and if it was the only tab the strip holds one new tab, which
   is active; if it was not the active one, it is gone from the strip and
   active_tab_id is as it was; if no tab had the id, the strip is as it was. *)
C38_CloseActivatesNeighbour ==
    \A t \in CmdMain :
        ClosedBy(t)
        => LET old == cmd[t].at_call.tabs
               old_active == cmd[t].at_call.active_tab_id
               k == Position(old, cmd[t].tab_id)
           IN  /\ k = 0 => tabs = old /\ active_tab_id = old_active
               /\ k # 0 => \/ TabIds(tabs) = TabIds(RemoveAt(old, k))
                           \/ Len(old) = 1 /\ old_active = Some(cmd[t].tab_id)
               /\ (k # 0 /\ old_active # Some(cmd[t].tab_id)) => active_tab_id = old_active
               /\ (k # 0 /\ old_active = Some(cmd[t].tab_id) /\ k < Len(old))
                     => active_tab_id = Some(old[k + 1].id)
               /\ (k # 0 /\ old_active = Some(cmd[t].tab_id) /\ k = Len(old) /\ k > 1)
                     => active_tab_id = Some(old[k - 1].id)
               /\ (k # 0 /\ old_active = Some(cmd[t].tab_id) /\ Len(old) = 1)
                     => /\ Len(tabs) = 1
                        /\ tabs[1].id \notin IdSet(old)
                        /\ active_tab_id = Some(tabs[1].id)


----------------------------------------------------------------------------
(* Properties of the tab commands on two threads (checked under SpecCmds) *)

(* Thread t is at a lock() of the tabs mutex, or of the active_tab_id mutex *)
WaitsForTabs(t) ==
    cmd[t].pc \in {"sw_lock_tabs", "sw_old_label", "emit_lock_tabs", "cl_lock_tabs",
                   "nav_lock_tabs", "ro_lock_tabs"}
WaitsForActive(t) ==
    cmd[t].pc \in {"sw_lock_active", "emit_lock_active", "cl_lock_active", "nav_lock_active"}

(* C37: concurrent tab commands cannot deadlock: in no state does one command
   hold the tabs mutex and wait for the active_tab_id mutex while another
   holds the active_tab_id mutex and waits for the tabs mutex (from such a
   state neither acquires its second lock and neither returns). *)
C37_NoCircularWait ==
    ~ \E t, u \in CmdThreads :
          /\ t # u
          /\ tabs_mutex = Some(t) /\ WaitsForActive(t)
          /\ active_mutex = Some(u) /\ WaitsForTabs(u)

====
